---- MODULE Spec2Model ----
(***************************************************************************)
(* A model of netbox_catalog: version parsing and compatibility            *)
(* resolution (compatibility.py), the PyPI client and its cache            *)
(* (pypi_client.py) and the catalog service (catalog_service.py).          *)
(*                                                                         *)
(* Python strings are sequences of one-character strings, so that parsing  *)
(* and formatting are computed and not assumed.  Python's None is the      *)
(* one-element sequence <<"None">>, which no character string equals.      *)
(***************************************************************************)
EXTENDS Integers, Sequences, FiniteSets, TLC

None == <<"None">>

\* Python truthiness of an Optional[str]: None and "" are falsy.
Truthy(x) == x # None /\ x # <<>>

(***************************************************************************)
(* Characters and integers                                                 *)
(***************************************************************************)
DigitChars == {"0", "1", "2", "3", "4", "5", "6", "7", "8", "9"}

IsDigit(c) == c \in DigitChars

DigitVal(c) ==
  CASE c = "0" -> 0 [] c = "1" -> 1 [] c = "2" -> 2 [] c = "3" -> 3
    [] c = "4" -> 4 [] c = "5" -> 5 [] c = "6" -> 6 [] c = "7" -> 7
    [] c = "8" -> 8 [] c = "9" -> 9

DigitChar(d) ==
  CASE d = 0 -> "0" [] d = 1 -> "1" [] d = 2 -> "2" [] d = 3 -> "3"
    [] d = 4 -> "4" [] d = 5 -> "5" [] d = 6 -> "6" [] d = 7 -> "7"
    [] d = 8 -> "8" [] d = 9 -> "9"

\* The separators PEP 440 allows before and after a pre-release letter.
IsSep(c) == c \in {"-", "_", "."}

\* [0-9]* from position i: the first position after the run of digits.
RECURSIVE DigitsEnd(_, _)
DigitsEnd(s, i) ==
  IF i <= Len(s) /\ IsDigit(s[i]) THEN DigitsEnd(s, i + 1) ELSE i

\* int(s[i..j-1]) for a run of digits.
RECURSIVE ToInt(_, _, _)
ToInt(s, i, j) ==
  IF j <= i THEN 0 ELSE 10 * ToInt(s, i, j - 1) + DigitVal(s[j - 1])

\* str(n) for n >= 0.
RECURSIVE IntToStr(_)
IntToStr(n) ==
  IF n < 10 THEN <<DigitChar(n)>>
  ELSE IntToStr(n \div 10) \o <<DigitChar(n % 10)>>

(***************************************************************************)
(* packaging.version.Version                                               *)
(*                                                                         *)
(* The strings of this model are over digits, ".", "-", "_", "a" and "D".  *)
(* On that alphabet the PEP 440 pattern is: a release [0-9]+(\.[0-9]+)*,   *)
(* an optional pre-release [-_.]?a[-_.]?[0-9]*, an optional post-release   *)
(* -[0-9]+.  Epochs, dev and local segments and the other pre/post words   *)
(* need characters these strings do not contain.                           *)
(***************************************************************************)
NoVal == 0 - 1

\* Version(s) raised InvalidVersion.
InvalidVersion == [ok |-> FALSE, release |-> <<>>, pre |-> NoVal, post |-> NoVal]

\* [0-9]+(\.[0-9]+)* from position i, where s[i] is a digit: the first
\* position after the release segment.
RECURSIVE ReleaseEnd(_, _)
ReleaseEnd(s, i) ==
  LET j == DigitsEnd(s, i) IN
  IF j < Len(s) /\ s[j] = "." /\ IsDigit(s[j + 1])
    THEN ReleaseEnd(s, j + 1)
    ELSE j

\* tuple(int(i) for i in release.split(".")) for s[i..j-1].
RECURSIVE ReleaseOf(_, _, _)
ReleaseOf(s, i, j) ==
  LET d == DigitsEnd(s, i) IN
  IF d >= j THEN <<ToInt(s, i, d)>>
  ELSE <<ToInt(s, i, d)>> \o ReleaseOf(s, d + 1, j)

\* The position of the pre-release letter when one follows the release that
\* ends before r, else r.
PreLetterAt(s, r) ==
  IF r < Len(s) /\ IsSep(s[r]) /\ s[r + 1] = "a" THEN r + 1 ELSE r

\* The position where the pre-release number starts, after the letter at p.
PreNumStart(s, p) ==
  IF p + 1 <= Len(s) /\ IsSep(s[p + 1]) THEN p + 2 ELSE p + 1

\* The string is consumed up to f: the version, if nothing is left over.
VersionDone(s, r, pre, post, f) ==
  IF f = Len(s) + 1
    THEN [ok |-> TRUE, release |-> ReleaseOf(s, 1, r), pre |-> pre, post |-> post]
    ELSE InvalidVersion

VersionPostNum(s, r, pre, e, f) == VersionDone(s, r, pre, ToInt(s, e + 1, f), f)

\* From position e, after the release and the pre-release: -[0-9]+ or nothing.
VersionPost(s, r, pre, e) ==
  IF e < Len(s) /\ s[e] = "-" /\ IsDigit(s[e + 1])
    THEN VersionPostNum(s, r, pre, e, DigitsEnd(s, e + 1))
    ELSE VersionDone(s, r, pre, NoVal, e)

\* A pre-release letter with its number in s[q..e-1] (0 when there is none).
VersionPreNum(s, r, q, e) == VersionPost(s, r, ToInt(s, q, e), e)

VersionPreLetter(s, r, q) == VersionPreNum(s, r, q, DigitsEnd(s, q))

\* From the release, which ends before r, with p = PreLetterAt(s, r).
VersionPre(s, r, p) ==
  IF p <= Len(s) /\ s[p] = "a"
    THEN VersionPreLetter(s, r, PreNumStart(s, p))
    ELSE VersionPost(s, r, NoVal, r)

VersionRelease(s, r) == VersionPre(s, r, PreLetterAt(s, r))

Version(s) ==
  IF s = None \/ Len(s) = 0 \/ ~IsDigit(s[1]) THEN InvalidVersion
  ELSE VersionRelease(s, ReleaseEnd(s, 1))

\* Version._key strips the trailing zeros of the release.
RECURSIVE StripZeros(_)
StripZeros(r) ==
  IF Len(r) > 0 /\ r[Len(r)] = 0 THEN StripZeros(SubSeq(r, 1, Len(r) - 1)) ELSE r

\* Python's tuple comparison: -1, 0 or 1.
RECURSIVE CmpTuple(_, _)
CmpTuple(a, b) ==
  IF Len(a) = 0 /\ Len(b) = 0 THEN 0
  ELSE IF Len(a) = 0 THEN 0 - 1
  ELSE IF Len(b) = 0 THEN 1
  ELSE IF a[1] < b[1] THEN 0 - 1
  ELSE IF a[1] > b[1] THEN 1
  ELSE CmpTuple(Tail(a), Tail(b))

CmpInt(a, b) == IF a < b THEN 0 - 1 ELSE IF a > b THEN 1 ELSE 0

\* _cmpkey: no pre-release sorts after every pre-release (Infinity), no
\* post-release before every post-release (NegativeInfinity).
CmpPre(a, b) ==
  IF a = NoVal /\ b = NoVal THEN 0
  ELSE IF a = NoVal THEN 1
  ELSE IF b = NoVal THEN 0 - 1
  ELSE CmpInt(a, b)

CmpKeys(c, a, b) ==
  IF c # 0 THEN c
  ELSE IF a.pre # b.pre THEN CmpPre(a.pre, b.pre)
  ELSE CmpInt(a.post, b.post)

CmpVersion(a, b) == CmpKeys(CmpTuple(StripZeros(a.release), StripZeros(b.release)), a, b)

VersionLt(a, b) == CmpVersion(a, b) < 0
VersionGt(a, b) == CmpVersion(a, b) > 0
VersionEq(a, b) == CmpVersion(a, b) = 0

\* ".".join(str(x) for x in release)
RECURSIVE JoinRelease(_)
JoinRelease(r) ==
  IF Len(r) = 1 THEN IntToStr(r[1])
  ELSE IntToStr(r[1]) \o <<".">> \o JoinRelease(Tail(r))

\* Version.__str__
VersionStr(v) ==
  JoinRelease(v.release)
    \o (IF v.pre # NoVal THEN <<"a">> \o IntToStr(v.pre) ELSE <<>>)
    \o (IF v.post # NoVal THEN <<".", "p", "o", "s", "t">> \o IntToStr(v.post) ELSE <<>>)

(***************************************************************************)
(* compatibility.parse_netbox_version                                      *)
(***************************************************************************)
\* re.match(r'^(\d+\.\d+\.\d+)', s): the length of group 1, 0 for no match.
\* d1, d2 and d3 are where the first, second and third run of digits end.
TripleEnd3(s, d2, d3) == IF d3 > d2 + 1 THEN d3 - 1 ELSE 0

TripleEnd2(s, d1, d2) ==
  IF d2 > d1 + 1 /\ d2 <= Len(s) /\ s[d2] = "."
    THEN TripleEnd3(s, d2, DigitsEnd(s, d2 + 1))
    ELSE 0

TripleEnd1(s, d1) ==
  IF d1 > 1 /\ d1 <= Len(s) /\ s[d1] = "."
    THEN TripleEnd2(s, d1, DigitsEnd(s, d1 + 1))
    ELSE 0

\* Not the code, a variant of it: the pattern ^(\d+\.\d+), one component short.
TripleMatch_TwoComponents(s) ==
  IF DigitsEnd(s, 1) > 1 /\ DigitsEnd(s, 1) <= Len(s) /\ s[DigitsEnd(s, 1)] = "."
       /\ DigitsEnd(s, DigitsEnd(s, 1) + 1) > DigitsEnd(s, 1) + 1
    THEN DigitsEnd(s, DigitsEnd(s, 1) + 1) - 1
    ELSE 0

TripleMatch(s) == TripleEnd1(s, DigitsEnd(s, 1))

ZeroVersion == [ok |-> TRUE, release |-> <<0, 0, 0>>, pre |-> NoVal, post |-> NoVal]

\* "try: return Version(x) except InvalidVersion: pass", then the fallback
OrZero(v) == IF v.ok THEN v ELSE ZeroVersion

\* The regex branch: m is the length of the match.
ParsePrefix(version_string, m) ==
  IF m > 0 THEN OrZero(Version(SubSeq(version_string, 1, m))) ELSE ZeroVersion

\* The "try parsing as-is" branch: v is Version(version_string), or its raise.
ParseAsIs(version_string, v) ==
  IF v.ok THEN v ELSE ParsePrefix(version_string, TripleMatch(version_string))

\* Not the code, a variant of it: no fallback after the pattern fails; InvalidVersion leaves the function.
parse_netbox_version_NoFallback(version_string) ==
  IF ~Truthy(version_string) THEN ZeroVersion
  ELSE IF Version(version_string).ok THEN Version(version_string)
  ELSE IF TripleMatch(version_string) > 0
    THEN Version(SubSeq(version_string, 1, TripleMatch(version_string)))
  ELSE InvalidVersion

parse_netbox_version(version_string) ==
  IF ~Truthy(version_string) THEN ZeroVersion
  ELSE ParseAsIs(version_string, Version(version_string))

(***************************************************************************)
(* Python dicts are functions on a set of key strings.                     *)
(***************************************************************************)
EmptyDict == [k \in {} |-> None]

\* d.get(k, default)
DictGet(d, k, default) == IF k \in DOMAIN d THEN d[k] ELSE default

\* str.replace(old, new) for one-character old and new.
Replace(s, old, new) == [i \in 1..Len(s) |-> IF s[i] = old THEN new ELSE s[i]]

(***************************************************************************)
(* State                                                                   *)
(***************************************************************************)
VARIABLES
  in_flight,          \* the requests being handled: per request, how far its
                      \* handler has got and its local variables
  InstallationLog_objects,  \* the rows of the InstallationLog table, oldest first
  settings_VERSION,   \* django settings.VERSION, the host's version string
  site_packages,      \* what importlib.import_module finds, per module name
  plugins_config,     \* settings.PLUGINS_CONFIG["netbox_catalog"]
  now,                \* the clock, in seconds
  cache,              \* django.core.cache.cache: key -> entry
  pypi,               \* the registry: the index's projects and each package's JSON
  pip_env,            \* what "pip list --format=json" reports: name -> version
  settings_PLUGINS,   \* settings.PLUGINS, the activated module names
  catalog_env,        \* the curated catalog's sources: remote document, local file
  svc,                \* the CatalogService instance: _curated_data, _installed_packages
  stale,              \* history: the keys cached when clear_cache / refresh_cache
                      \* last ran and not read through the client since
  ret                 \* the last call and what it returned

(***************************************************************************)
(* compatibility.CompatibilityChecker                                      *)
(***************************************************************************)
\* CompatibilityChecker.__init__: self.netbox_version
netbox_version == parse_netbox_version(settings_VERSION)

\* An attribute value None, and getattr(obj, name, default) on an object
\* whose attributes are the dict obj.fields.
NoneObj == [kind |-> "none", fields |-> EmptyDict]

getattr(obj, name, default) == DictGet(obj.fields, name, default)

\* The dir(module) scan: the first attribute that is a type with both
\* min_version and name, NoneObj when there is none.
RECURSIVE FindConfigClass(_)
FindConfigClass(attrs) ==
  IF attrs = <<>> THEN NoneObj
  ELSE IF /\ attrs[1].kind = "type"
          /\ "min_version" \in DOMAIN attrs[1].fields
          /\ "name" \in DOMAIN attrs[1].fields
         THEN attrs[1]
         ELSE FindConfigClass(Tail(attrs))

\* True when importlib.import_module(module_name) returns a module; it raises
\* ImportError (not installed) or another exception otherwise.
Importable(module_name) ==
  module_name \in DOMAIN site_packages /\ site_packages[module_name].import = "ok"

\* getattr(module, 'config', None), else the dir(module) scan
ConfigClassOf(module) ==
  IF module.config.kind = "none" THEN FindConfigClass(module.attrs) ELSE module.config

\* "if config_class: return {...}", else {}
ConstraintsOfConfig(module_name, config_class) ==
  IF config_class.kind = "none" THEN EmptyDict
  ELSE [min_version |-> getattr(config_class, "min_version", None),
        max_version |-> getattr(config_class, "max_version", None),
        name |-> getattr(config_class, "name", module_name),
        version |-> getattr(config_class, "version", None)]

ConstraintsOfModule(module_name) ==
  IF ~Importable(module_name) THEN EmptyDict
  ELSE ConstraintsOfConfig(module_name, ConfigClassOf(site_packages[module_name]))

get_plugin_constraints(package_name) ==
  ConstraintsOfModule(Replace(package_name, "-", "_"))

\* f"Requires NetBox >= {min_version}" and f"Requires NetBox <= {max_version}"
RequiresGE(min_version) == <<"Requires NetBox >= ">> \o min_version
RequiresLE(max_version) == <<"Requires NetBox <= ">> \o max_version

\* An exception that left the function.
Raised == [raised |-> TRUE]

\* "self.netbox_version < Version(min_version)" inside try/except Exception:
\* b is Version(min_version), whose raise is caught and passed over.
\* Not the code, a variant of it: <= for <.
IsBelow_OrEqual(current, b) == b.ok /\ ~VersionGt(current, b)

IsBelow(current, b) == b.ok /\ VersionLt(current, b)
\* Not the code, a variant of it: a bound that does not parse counts as violated.
IsAbove_MalformedFails(current, b) == ~b.ok \/ VersionGt(current, b)

IsAbove(current, b) == b.ok /\ VersionGt(current, b)

\* The result dict, once both comparisons are made.
CheckResult(current_str, min_version, max_version, below, above) ==
  [compatible |-> ~below /\ ~above,
   reason |-> IF below THEN RequiresGE(min_version)
              ELSE IF above THEN RequiresLE(max_version)
              ELSE None,
   min_version |-> min_version,
   max_version |-> max_version,
   current_netbox_version |-> current_str]

CheckAgainst(current, min_version, max_version) ==
  CheckResult(VersionStr(current), min_version, max_version,
              Truthy(min_version) /\ IsBelow(current, Version(min_version)),
              Truthy(max_version) /\ IsAbove(current, Version(max_version)))

check_compatibility(package_name, min_version, max_version) ==
  CheckAgainst(netbox_version, min_version, max_version)

\* Not the code, a variant of it: the declared bounds are read but the source is left as it was.
BoundsFromPlugin_SourceKept(cmin, cmax, constraints) ==
  IF constraints # EmptyDict
    THEN [min_version |-> constraints.min_version,
          max_version |-> constraints.max_version,
          source |-> "unknown", imported |-> TRUE]
    ELSE [min_version |-> cmin, max_version |-> cmax, source |-> "unknown",
          imported |-> TRUE]

\* Not the code, a variant of it: the source is plugin_config whenever a PluginConfig was found.
BoundsFromPlugin_SourceAlways(cmin, cmax, constraints) ==
  IF constraints # EmptyDict
    THEN [min_version |-> constraints.min_version,
          max_version |-> constraints.max_version,
          source |-> "plugin_config", imported |-> TRUE]
    ELSE [min_version |-> cmin, max_version |-> cmax, source |-> "unknown",
          imported |-> TRUE]

\* "If no curated data, try importing the plugin": constraints is what
\* get_plugin_constraints returned.
BoundsFromPlugin(cmin, cmax, constraints) ==
  IF constraints # EmptyDict
    THEN [min_version |-> constraints.min_version,
          max_version |-> constraints.max_version,
          source |-> IF Truthy(constraints.min_version) \/ Truthy(constraints.max_version)
                       THEN "plugin_config" ELSE "unknown",
          imported |-> TRUE]
    ELSE [min_version |-> cmin, max_version |-> cmax, source |-> "unknown",
          imported |-> TRUE]

\* Not the code, a variant of it: the installed plugin's own bounds are consulted first.
BoundsFrom_PluginFirst(package_name, cmin, cmax) ==
  IF Truthy(DictGet(get_plugin_constraints(package_name), "min_version", None))
       \/ Truthy(DictGet(get_plugin_constraints(package_name), "max_version", None))
    THEN BoundsFromPlugin(cmin, cmax, get_plugin_constraints(package_name))
    ELSE [min_version |-> cmin, max_version |-> cmax,
          source |-> IF Truthy(cmin) \/ Truthy(cmax) THEN "curated" ELSE "unknown",
          imported |-> TRUE]

\* Not the code, a variant of it: the package is imported before the curated bounds are looked at.
BoundsFrom_ImportsAnyway(package_name, cmin, cmax) ==
  IF Truthy(cmin) \/ Truthy(cmax)
    THEN [min_version |-> cmin, max_version |-> cmax, source |-> "curated",
          imported |-> TRUE]
    ELSE BoundsFromPlugin(cmin, cmax, get_plugin_constraints(package_name))

\* cmin and cmax are the curated entry's bounds (None for an empty entry).
BoundsFrom(package_name, cmin, cmax) ==
  IF Truthy(cmin) \/ Truthy(cmax)
    THEN [min_version |-> cmin, max_version |-> cmax, source |-> "curated",
          imported |-> FALSE]
    ELSE BoundsFromPlugin(cmin, cmax, get_plugin_constraints(package_name))

\* The bounds and the source get_full_compatibility_info settles on, and
\* whether it imported the package.
CompatBounds(package_name, curated_data_arg) ==
  BoundsFrom(package_name,
             DictGet(curated_data_arg, "netbox_min_version", None),
             DictGet(curated_data_arg, "netbox_max_version", None))

\* compat_result["source"] = source
WithSource(compat_result, b) ==
  [compatible |-> compat_result.compatible,
   reason |-> compat_result.reason,
   min_version |-> compat_result.min_version,
   max_version |-> compat_result.max_version,
   current_netbox_version |-> compat_result.current_netbox_version,
   source |-> b.source]

FullInfo(package_name, b) ==
  WithSource(check_compatibility(package_name, b.min_version, b.max_version), b)

get_full_compatibility_info(package_name, curated_data_arg) ==
  FullInfo(package_name, CompatBounds(package_name, curated_data_arg))

VerifyResult(constraints, compat) ==
  IF constraints # EmptyDict /\ ~compat.compatible
    THEN [status |-> "warning",
          message |-> <<"Plugin installed but may not be compatible: ">> \o compat.reason,
          constraints |-> constraints]
    ELSE [status |-> "ok",
          message |-> <<"Plugin installed successfully">>,
          constraints |-> constraints]

VerifyConstraints(package_name, constraints) ==
  VerifyResult(constraints,
               check_compatibility(package_name,
                                   DictGet(constraints, "min_version", None),
                                   DictGet(constraints, "max_version", None)))

verify_after_install(package_name) ==
  VerifyConstraints(package_name, get_plugin_constraints(package_name))

(***************************************************************************)
(* django.core.cache.cache                                                 *)
(***************************************************************************)
PkgA == <<"n", "e", "t", "b", "o", "x", "-", "a">>
PkgB == <<"N", "e", "t", "B", "o", "x", "_", "b">>
PkgOther == <<"d", "j", "a", "n", "g", "o">>

\* The package names of the model.
Names == {PkgA, PkgB, PkgOther}

KeyPackages == <<"netbox_catalog:pypi_packages">>
KeyPackage(package_name) == <<"netbox_catalog:package:">> \o package_name
KeyInstalled == <<"netbox_catalog:installed_packages">>

CacheKeys == {KeyPackages, KeyInstalled} \cup {KeyPackage(n) : n \in Names}

NoEntry == [present |-> FALSE, value |-> None, expires |-> 0]

\* cache.get(key) finds an entry: it was set and has not expired.
CacheHit(c, key) == c[key].present /\ now < c[key].expires

\* cache.set(key, value, timeout)
CacheSet(c, key, value, timeout) ==
  [c EXCEPT ![key] = [present |-> TRUE, value |-> value, expires |-> now + timeout]]

\* cache.delete(key)
CacheDelete(c, key) == [c EXCEPT ![key] = NoEntry]

(***************************************************************************)
(* pypi_client.PyPIClient                                                  *)
(***************************************************************************)
DefaultCacheTimeout == 3600

\* PyPIClient.__init__: self.cache_timeout
cache_timeout == DictGet(plugins_config, "pypi_cache_timeout", DefaultCacheTimeout)

NETBOX_PREFIXES == {<<"n", "e", "t", "b", "o", "x", "-">>,
                    <<"n", "e", "t", "b", "o", "x", "_">>}

\* str.lower(), on the letters the names of the model contain.
LowerChar(ch) == CASE ch = "N" -> "n" [] ch = "B" -> "b" [] OTHER -> ch

Lower(s) == [i \in 1..Len(s) |-> LowerChar(s[i])]

StartsWith(s, prefix) ==
  Len(s) >= Len(prefix) /\ SubSeq(s, 1, Len(prefix)) = prefix

\* [p["name"] for p in projects if any(p["name"].lower().startswith(prefix) ...)]
RECURSIVE FilterNetbox(_)
FilterNetbox(projects) ==
  IF projects = <<>> THEN <<>>
  ELSE IF \E prefix \in NETBOX_PREFIXES : StartsWith(Lower(projects[1]), prefix)
         THEN <<projects[1]>> \o FilterNetbox(Tail(projects))
         ELSE FilterNetbox(Tail(projects))

\* How an HTTP request ends: a response, or requests.RequestException
\* (connection error, timeout, or raise_for_status on an error status).
Outcomes == {"ok", "RequestException"}

\* Exceptions the handling of a response can raise: response.json() on a body
\* that is not JSON raises requests' JSONDecodeError (a RequestException, from
\* requests 2.27 on) or a plain ValueError (older requests); a JSON document
\* of another shape (a list, "info": null, a project without "name") raises
\* AttributeError, KeyError or TypeError, here "AttributeError".
DecodeErrors == {"JSONDecodeError", "ValueError", "AttributeError"}

ClientOutcomes == Outcomes \cup DecodeErrors

\* "except requests.RequestException" catches the outcome.
IsRequestException(outcome) == outcome \in {"RequestException", "JSONDecodeError"}

\* The index was fetched: packages is the filtered list, cached and returned.
ListFetched(c, packages) ==
  [value |-> packages,
   cache |-> CacheSet(c, KeyPackages, packages, cache_timeout),
   fetched |-> TRUE]

\* Not the code, a variant of it: the empty list of a failed request is cached.
get_all_netbox_packages_FallbackCached(c, outcome) ==
  IF CacheHit(c, KeyPackages) /\ c[KeyPackages].value # <<>>
    THEN [value |-> c[KeyPackages].value, cache |-> c, fetched |-> FALSE]
  ELSE IF outcome = "ok" THEN ListFetched(c, FilterNetbox(pypi.projects))
  ELSE IF IsRequestException(outcome) THEN ListFetched(c, <<>>)
  ELSE [value |-> Raised, cache |-> c, fetched |-> TRUE]

\* get_all_netbox_packages on cache c: what it returns, the cache it leaves
\* and whether it sent a request to the index.
get_all_netbox_packages(c, outcome) ==
  IF CacheHit(c, KeyPackages) /\ c[KeyPackages].value # <<>>
    THEN [value |-> c[KeyPackages].value, cache |-> c, fetched |-> FALSE]
  ELSE IF outcome = "ok" THEN ListFetched(c, FilterNetbox(pypi.projects))
  ELSE IF IsRequestException(outcome) THEN [value |-> <<>>, cache |-> c, fetched |-> TRUE]
  ELSE [value |-> Raised, cache |-> c, fetched |-> TRUE]

\* index of the first "<" in s, 0 when there is none
RECURSIVE FindChar(_, _, _)
FindChar(s, ch, i) ==
  IF i > Len(s) THEN 0 ELSE IF s[i] = ch THEN i ELSE FindChar(s, ch, i + 1)

\* str.strip() of trailing and leading blanks
RECURSIVE Strip(_)
Strip(s) ==
  IF s # <<>> /\ s[1] = " " THEN Strip(Tail(s))
  ELSE IF s # <<>> /\ s[Len(s)] = " " THEN Strip(SubSeq(s, 1, Len(s) - 1))
  ELSE s

_extract_author_from_email(email_field) ==
  IF ~Truthy(email_field) THEN <<>>
  ELSE IF FindChar(email_field, "<", 1) > 0
    THEN Strip(SubSeq(email_field, 1, FindChar(email_field, "<", 1) - 1))
  ELSE email_field

\* "a or b" on Optional[str]
Or(a, b) == IF Truthy(a) THEN a ELSE b

\* get_package_info returned None.
NoneInfo == [none |-> TRUE]

\* The package_info dict built from the JSON document data = {info, releases}.
PackageInfo(data) ==
  LET info == data.info IN
  [name |-> DictGet(info, "name", None),
   version |-> DictGet(info, "version", None),
   summary |-> DictGet(info, "summary", None),
   author |-> Or(DictGet(info, "author", None),
                 _extract_author_from_email(DictGet(info, "author_email", None))),
   author_email |-> DictGet(info, "author_email", None),
   keywords |-> DictGet(info, "keywords", None),
   home_page |-> Or(DictGet(info, "home_page", None),
                    DictGet(info, "project_urls_Homepage", None)),
   releases |-> data.releases]

\* The registry has a JSON document for the package (else the request ends 404).
InRegistry(package_name) == package_name \in DOMAIN pypi.packages

\* The JSON document was fetched: package_info is cached and returned.
InfoFetched(c, package_name, package_info) ==
  [value |-> package_info,
   cache |-> CacheSet(c, KeyPackage(package_name), package_info, cache_timeout),
   fetched |-> TRUE]

get_package_info(c, package_name, outcome) ==
  IF CacheHit(c, KeyPackage(package_name))
    THEN [value |-> c[KeyPackage(package_name)].value, cache |-> c, fetched |-> FALSE]
  ELSE IF outcome = "ok" /\ InRegistry(package_name)
    THEN InfoFetched(c, package_name, PackageInfo(pypi.packages[package_name]))
  ELSE IF outcome = "ok" \/ IsRequestException(outcome)
    THEN [value |-> NoneInfo, cache |-> c, fetched |-> TRUE]
  ELSE [value |-> Raised, cache |-> c, fetched |-> TRUE]

\* Not the code, a variant of it: every entry of the registry's data is dropped.
clear_cache_Everything(c) == [k \in CacheKeys |-> IF k = KeyInstalled THEN c[k] ELSE NoEntry]

\* PyPIClient.clear_cache
clear_cache(c) == CacheDelete(c, KeyPackages)

(***************************************************************************)
(* catalog_service.CatalogService                                          *)
(***************************************************************************)
InstalledTimeout == 60

\* An instance attribute that is None until first loaded.
Unset == [loaded |-> FALSE, value |-> EmptyDict]
Loaded(v) == [loaded |-> TRUE, value |-> v]

\* CatalogService.__init__
NewService == [_curated_data |-> Unset, _installed_packages |-> Unset]

EmptyCatalog == [plugins |-> EmptyDict, categories |-> <<>>, certification_levels |-> EmptyDict]

\* The local file: open() and f.read() raise OSError or UnicodeDecodeError on
\* a file that cannot be read (readable = FALSE), json.load raises
\* JSONDecodeError on one that is not JSON (valid = FALSE); only the latter is
\* caught.
LoadLocalCatalog ==
  IF catalog_env.local.exists /\ ~catalog_env.local.readable THEN Raised
  ELSE IF catalog_env.local.exists /\ catalog_env.local.valid THEN catalog_env.local.doc
  ELSE EmptyCatalog

_load_curated_catalog(remote_outcome) ==
  LET remote_url == DictGet(plugins_config, "catalog_json_url", None) IN
  IF Truthy(remote_url) /\ remote_outcome = "ok" THEN catalog_env.remote
  ELSE IF Truthy(remote_url) /\ ~IsRequestException(remote_outcome) THEN Raised
  ELSE LoadLocalCatalog

\* self._curated_data = self._load_curated_catalog()
CuratedLoaded(s, doc) ==
  IF doc = Raised THEN [value |-> Raised, svc |-> s]
  ELSE [value |-> doc, svc |-> [s EXCEPT !._curated_data = Loaded(doc)]]

\* The curated_data property on instance state s: the catalog and the
\* instance state it leaves.
curated_data(s, remote_outcome) ==
  IF s._curated_data.loaded
    THEN [value |-> s._curated_data.value, svc |-> s]
    ELSE CuratedLoaded(s, _load_curated_catalog(remote_outcome))

\* How the "pip list" subprocess ends: exit code 0 with its JSON, a nonzero
\* exit code, or an exception (timeout, unparsable output).
PipOutcomes == {"ok", "nonzero", "exception"}

\* Not the code, a variant of it: the inventory is cached for the registry's TTL.
_get_installed_packages_RegistryTTL(c, s, pip_outcome) ==
  IF s._installed_packages.loaded
    THEN [value |-> s._installed_packages.value, cache |-> c, svc |-> s, ran |-> FALSE]
  ELSE IF CacheHit(c, KeyInstalled) /\ c[KeyInstalled].value # EmptyDict
    THEN [value |-> c[KeyInstalled].value,
          cache |-> c,
          svc |-> [s EXCEPT !._installed_packages = Loaded(c[KeyInstalled].value)],
          ran |-> FALSE]
  ELSE IF pip_outcome = "ok"
    THEN [value |-> pip_env,
          cache |-> CacheSet(c, KeyInstalled, pip_env, cache_timeout),
          svc |-> [s EXCEPT !._installed_packages = Loaded(pip_env)],
          ran |-> TRUE]
  ELSE [value |-> EmptyDict,
        cache |-> c,
        svc |-> [s EXCEPT !._installed_packages = Loaded(EmptyDict)],
        ran |-> TRUE]

_get_installed_packages(c, s, pip_outcome) ==
  IF s._installed_packages.loaded
    THEN [value |-> s._installed_packages.value, cache |-> c, svc |-> s, ran |-> FALSE]
  ELSE IF CacheHit(c, KeyInstalled) /\ c[KeyInstalled].value # EmptyDict
    THEN [value |-> c[KeyInstalled].value,
          cache |-> c,
          svc |-> [s EXCEPT !._installed_packages = Loaded(c[KeyInstalled].value)],
          ran |-> FALSE]
  ELSE IF pip_outcome = "ok"
    THEN [value |-> pip_env,
          cache |-> CacheSet(c, KeyInstalled, pip_env, InstalledTimeout),
          svc |-> [s EXCEPT !._installed_packages = Loaded(pip_env)],
          ran |-> TRUE]
  ELSE [value |-> EmptyDict,
        cache |-> c,
        svc |-> [s EXCEPT !._installed_packages = Loaded(EmptyDict)],
        ran |-> TRUE]

_get_activated_plugins == settings_PLUGINS

\* s.split(",") : the pieces of s between commas
RECURSIVE SplitComma(_)
SplitComma(s) ==
  LET i == FindChar(s, ",", 1) IN
  IF i = 0 THEN <<s>>
  ELSE <<SubSeq(s, 1, i - 1)>> \o SplitComma(SubSeq(s, i + 1, Len(s)))

\* [k.strip() for k in pieces if k.strip()]
RECURSIVE StripNonEmpty(_)
StripNonEmpty(pieces) ==
  IF pieces = <<>> THEN <<>>
  ELSE IF Strip(pieces[1]) # <<>>
         THEN <<Strip(pieces[1])>> \o StripNonEmpty(Tail(pieces))
         ELSE StripNonEmpty(Tail(pieces))

\* Not the code, a variant of it: recommended is not read from the curated entry.
_merge_plugin_info_AlwaysRecommended(name, pypi_info, curated_info) ==
  [name |-> name,
   version |-> pypi_info.version,
   summary |-> pypi_info.summary,
   author |-> pypi_info.author,
   keywords |-> StripNonEmpty(SplitComma(Or(pypi_info.keywords, <<>>))),
   home_page |-> pypi_info.home_page,
   releases |-> pypi_info.releases,
   category |-> DictGet(curated_info, "category", <<"Other">>),
   tags |-> DictGet(curated_info, "tags", <<>>),
   certification |-> DictGet(curated_info, "certification", <<"untested">>),
   netbox_min_version |-> DictGet(curated_info, "netbox_min_version", <<>>),
   netbox_max_version |-> DictGet(curated_info, "netbox_max_version", <<>>),
   notes |-> DictGet(curated_info, "notes", <<>>),
   recommended |-> TRUE,
   featured |-> DictGet(curated_info, "featured", FALSE),
   documentation_url |-> DictGet(curated_info, "documentation_url", <<>>),
   replacement |-> DictGet(curated_info, "replacement", <<>>),
   installed_version |-> <<>>,
   is_activated |-> FALSE,
   upgrade_available |-> FALSE,
   is_compatible |-> TRUE,
   compatibility_reason |-> <<>>,
   compatibility_source |-> "unknown"]

_merge_plugin_info(name, pypi_info, curated_info) ==
  [name |-> name,
   version |-> pypi_info.version,
   summary |-> pypi_info.summary,
   author |-> pypi_info.author,
   keywords |-> StripNonEmpty(SplitComma(Or(pypi_info.keywords, <<>>))),
   home_page |-> pypi_info.home_page,
   releases |-> pypi_info.releases,
   category |-> DictGet(curated_info, "category", <<"Other">>),
   tags |-> DictGet(curated_info, "tags", <<>>),
   certification |-> DictGet(curated_info, "certification", <<"untested">>),
   netbox_min_version |-> DictGet(curated_info, "netbox_min_version", <<>>),
   netbox_max_version |-> DictGet(curated_info, "netbox_max_version", <<>>),
   notes |-> DictGet(curated_info, "notes", <<>>),
   recommended |-> DictGet(curated_info, "recommended", TRUE),
   featured |-> DictGet(curated_info, "featured", FALSE),
   documentation_url |-> DictGet(curated_info, "documentation_url", <<>>),
   replacement |-> DictGet(curated_info, "replacement", <<>>),
   installed_version |-> <<>>,
   is_activated |-> FALSE,
   upgrade_available |-> FALSE,
   is_compatible |-> TRUE,
   compatibility_reason |-> <<>>,
   compatibility_source |-> "unknown"]

\* "Add runtime status" and "Check compatibility", the same lines in
\* get_all_plugins and in get_plugin: compat_info is what
\* get_full_compatibility_info(name, curated_info) returned.
Annotate(plugin, name, installed, activated, compat_info) ==
  [plugin EXCEPT
     !.installed_version = IF name \in DOMAIN installed
                             THEN installed[name] ELSE plugin.installed_version,
     !.upgrade_available = IF name \in DOMAIN installed
                             THEN plugin.version # installed[name]
                             ELSE plugin.upgrade_available,
     !.is_activated = Replace(name, "-", "_") \in activated,
     !.is_compatible = compat_info.compatible,
     !.compatibility_reason = compat_info.reason,
     !.compatibility_source = compat_info.source]

\* The record for name: merged, then annotated.
PluginRecord(name, pypi_info, curated_info, installed) ==
  Annotate(_merge_plugin_info(name, pypi_info, curated_info), name, installed,
           _get_activated_plugins, get_full_compatibility_info(name, curated_info))

\* The loop of get_all_plugins over package_names, from cache c and instance
\* state s: the records appended, the cache and the instance state it leaves,
\* and whether an exception left it instead (raised; no records then).
\* outcomes[name] is how the request for name's JSON ends, if one is sent.
RECURSIVE PluginsLoop(_, _, _, _, _, _, _)

\* "plugins.append(plugin)", unless "if not pypi_info: continue"
LoopAppend(name, pypi_info, curated_info, installed, rest) ==
  IF pypi_info = NoneInfo \/ rest.raised THEN rest
  ELSE [rest EXCEPT !.value =
          <<PluginRecord(name, pypi_info, curated_info, installed)>> \o rest.value]

\* got is what get_package_info(name) returned; what it raises leaves
\* get_all_plugins, which has no handler.
LoopGot(package_names, s, include_uncurated, installed, outcomes, remote_outcome, curated_info, got) ==
  IF got.value = Raised
    THEN [value |-> <<>>, cache |-> got.cache, svc |-> s, raised |-> TRUE]
    ELSE LoopAppend(package_names[1], got.value, curated_info, installed,
                    PluginsLoop(Tail(package_names), got.cache, s, include_uncurated,
                                installed, outcomes, remote_outcome))

\* Not the code, a variant of it: the uncurated are skipped whatever include_uncurated is.
LoopEntry_AlwaysCuratedOnly(package_names, c, s, include_uncurated, installed, outcomes, remote_outcome, curated_info) ==
  IF curated_info = EmptyDict
    THEN PluginsLoop(Tail(package_names), c, s, include_uncurated, installed,
                     outcomes, remote_outcome)
    ELSE LoopGot(package_names, s, include_uncurated, installed, outcomes,
                 remote_outcome, curated_info,
                 get_package_info(c, package_names[1], outcomes[package_names[1]]))

\* "if not include_uncurated and not curated_info: continue"
LoopEntry(package_names, c, s, include_uncurated, installed, outcomes, remote_outcome, curated_info) ==
  IF ~include_uncurated /\ curated_info = EmptyDict
    THEN PluginsLoop(Tail(package_names), c, s, include_uncurated, installed,
                     outcomes, remote_outcome)
    ELSE LoopGot(package_names, s, include_uncurated, installed, outcomes,
                 remote_outcome, curated_info,
                 get_package_info(c, package_names[1], outcomes[package_names[1]]))

\* cd is what the curated_data property returned.
LoopCurated(package_names, c, include_uncurated, installed, outcomes, remote_outcome, cd) ==
  LoopEntry(package_names, c, cd.svc, include_uncurated, installed, outcomes,
            remote_outcome, DictGet(cd.value.plugins, package_names[1], EmptyDict))

PluginsLoop(package_names, c, s, include_uncurated, installed, outcomes, remote_outcome) ==
  IF package_names = <<>> THEN [value |-> <<>>, cache |-> c, svc |-> s, raised |-> FALSE]
  ELSE LoopCurated(package_names, c, include_uncurated, installed, outcomes,
                   remote_outcome, curated_data(s, remote_outcome))

\* inst is what _get_installed_packages returned.
AllWithInstalled(package_names, include_uncurated, outcomes, remote_outcome, inst) ==
  PluginsLoop(package_names, inst.cache, inst.svc, include_uncurated, inst.value,
              outcomes, remote_outcome)

\* listed is what get_all_netbox_packages returned.
AllWithListed(s, include_uncurated, outcomes, pip_outcome, remote_outcome, listed) ==
  AllWithInstalled(listed.value, include_uncurated, outcomes, remote_outcome,
                   _get_installed_packages(listed.cache, s, pip_outcome))

\* get_all_plugins on cache c and instance state s: the records (plugins), the
\* cache and the instance state it leaves.
get_all_plugins(c, s, include_uncurated, index_outcome, outcomes, pip_outcome, remote_outcome) ==
  AllWithListed(s, include_uncurated, outcomes, pip_outcome, remote_outcome,
                get_all_netbox_packages(c, index_outcome))

\* get_plugin returned None.
NonePlugin == [none |-> TRUE]

\* Not the code, a variant of it: get_plugin leaves out the runtime status.
OneWithInstalled_Unannotated(name, pypi_info, curated_info, inst) ==
  [value |-> Annotate(_merge_plugin_info(name, pypi_info, curated_info), name, EmptyDict,
                      _get_activated_plugins,
                      get_full_compatibility_info(name, curated_info)),
   cache |-> inst.cache,
   svc |-> inst.svc]

\* inst is what _get_installed_packages returned.
OneWithInstalled(name, pypi_info, curated_info, inst) ==
  [value |-> PluginRecord(name, pypi_info, curated_info, inst.value),
   cache |-> inst.cache,
   svc |-> inst.svc]

\* Not the code, a variant of it: a name without a curated entry gets None.
OneWithCurated_CuratedOnly(c, name, pypi_info, pip_outcome, cd) ==
  IF DictGet(cd.value.plugins, name, EmptyDict) = EmptyDict
    THEN [value |-> NonePlugin, cache |-> c, svc |-> cd.svc]
    ELSE OneWithInstalled(name, pypi_info, DictGet(cd.value.plugins, name, EmptyDict),
                          _get_installed_packages(c, cd.svc, pip_outcome))

OneWithCurated(c, name, pypi_info, pip_outcome, cd) ==
  OneWithInstalled(name, pypi_info, DictGet(cd.value.plugins, name, EmptyDict),
                   _get_installed_packages(c, cd.svc, pip_outcome))

OneWithInfo(s, name, pip_outcome, remote_outcome, got) ==
  IF got.value = NoneInfo THEN [value |-> NonePlugin, cache |-> got.cache, svc |-> s]
  ELSE OneWithCurated(got.cache, name, got.value, pip_outcome,
                      curated_data(s, remote_outcome))

\* get_plugin on cache c and instance state s.
get_plugin(c, s, name, outcome, pip_outcome, remote_outcome) ==
  OneWithInfo(s, name, pip_outcome, remote_outcome, get_package_info(c, name, outcome))

\* refresh_cache: the cache and the instance state it leaves.
\* Not the code, a variant of it: the inventory's cache entry is left in place.
refresh_cache_KeepsInventory(c, s) ==
  [cache |-> clear_cache(c), svc |-> NewService]

refresh_cache(c, s) ==
  [cache |-> CacheDelete(clear_cache(c), KeyInstalled), svc |-> NewService]

(***************************************************************************)
(* installer.PluginInstaller                                               *)
(*                                                                         *)
(* host is the machine the installer runs on: the pip commands _find_pip   *)
(* collects there (candidates, in its order), those of them that answer    *)
(* "--version" with exit code 0 (working), and whether it is a container   *)
(* (docker). Every operator returns, besides its value, the subprocesses   *)
(* it ran, in order (runs).                                                *)
(***************************************************************************)
DefaultInstallTimeout == 300

\* PluginInstaller.__init__
NewInstaller == [timeout |-> DefaultInstallTimeout, _pip_cmd |-> None]

\* [sys.executable, "-m", "pip"]
PythonM == <<"python", "-m", "pip">>

\* subprocess.run(cmd + args), args ending with the package spec if any.
Run(cmd, args, spec) == [cmd |-> cmd, args |-> args, spec |-> spec]

\* The first candidate from position i on that works; 0 if none does.
RECURSIVE FirstWorking(_, _, _)
FirstWorking(candidates, working, i) ==
  IF i > Len(candidates) THEN 0
  ELSE IF candidates[i] \in working THEN i
  ELSE FirstWorking(candidates, working, i + 1)

\* The "--version" runs of the first k candidates.
Probes(candidates, k) == [i \in 1..k |-> Run(candidates[i], <<"--version">>, <<>>)]

\* "for cmd in candidates", k being the first that works.
FoundPip(inst, host, k) ==
  IF k > 0
    THEN [cmd |-> host.candidates[k],
          inst |-> [inst EXCEPT !._pip_cmd = host.candidates[k]],
          runs |-> Probes(host.candidates, k)]
    ELSE [cmd |-> PythonM, inst |-> inst, runs |-> Probes(host.candidates, Len(host.candidates))]

_find_pip(inst, host) ==
  IF Truthy(inst._pip_cmd) THEN [cmd |-> inst._pip_cmd, inst |-> inst, runs |-> <<>>]
  ELSE FoundPip(inst, host, FirstWorking(host.candidates, host.working, 1))

\* found is what _find_pip returned.
PipAvailable(host, found) ==
  [value |-> found.cmd \in host.working,
   inst |-> found.inst,
   runs |-> Append(found.runs, Run(found.cmd, <<"--version">>, <<>>))]

is_pip_available(inst, host) == PipAvailable(host, _find_pip(inst, host))

is_docker_environment(host) == host.docker

\* The InstallResult dataclass; version, output and error default to "".
InstallResult(success, package_name, version, output, error) ==
  [success |-> success, package_name |-> package_name, version |-> version,
   output |-> output, error |-> error]

UnavailableError(docker) ==
  <<"pip is not available in this environment.">>
    \o (IF docker THEN <<"This NetBox instance is running in Docker.">> ELSE <<>>)

TimedOutError(timeout) ==
  <<"Installation timed out after ", ToString(timeout), " seconds">>

\* f"{package_name}=={version}" if version else package_name
PackageSpec(package_name, version) ==
  IF Truthy(version) THEN package_name \o <<"=", "=">> \o version ELSE package_name

\* How a subprocess ends: it exits with a return code, having written stdout
\* and stderr, or subprocess.run raises TimeoutExpired or another exception.
Exited(returncode, stdout, stderr) ==
  [kind |-> "exit", returncode |-> returncode, stdout |-> stdout, stderr |-> stderr]
TimeoutExpired == [kind |-> "TimeoutExpired"]
RunException(message) == [kind |-> "Exception", message |-> message]

\* _get_installed_version: "pip show", the Version: line of its output; ""
\* when it fails. installed is pip's inventory at that moment.
ShownVersion(package_name, show_outcome, installed, found) ==
  [value |-> IF show_outcome = "ok" /\ package_name \in DOMAIN installed
               THEN installed[package_name] ELSE <<>>,
   runs |-> Append(found.runs, Run(found.cmd, <<"show">>, package_name))]

_get_installed_version(inst, host, package_name, show_outcome, installed) ==
  ShownVersion(package_name, show_outcome, installed, _find_pip(inst, host))

\* The success branch: shown is what _get_installed_version returned.
InstallSucceeded(package_name, outcome, runs, shown) ==
  [value |-> InstallResult(TRUE, package_name, shown.value, outcome.stdout, <<>>),
   runs |-> runs \o shown.runs]

\* The try block and its handlers; runs holds the install subprocess as its
\* last element, outcome is how that subprocess ended.
InstallEnded(inst, host, package_name, outcome, show_outcome, installed, runs) ==
  IF outcome.kind = "exit" /\ outcome.returncode = 0
    THEN InstallSucceeded(package_name, outcome, runs,
           _get_installed_version(inst, host, package_name, show_outcome, installed))
  ELSE IF outcome.kind = "exit"
    THEN [value |-> InstallResult(FALSE, package_name, <<>>, outcome.stdout, outcome.stderr),
          runs |-> runs]
  ELSE IF outcome.kind = "TimeoutExpired"
    THEN [value |-> InstallResult(FALSE, package_name, <<>>, <<>>, TimedOutError(inst.timeout)),
          runs |-> runs]
  ELSE [value |-> InstallResult(FALSE, package_name, <<>>, <<>>, outcome.message),
        runs |-> runs]

\* "cmd = self._find_pip() + ["install"]" ... and the one subprocess.run(cmd).
InstallArgs(upgrade) == IF upgrade THEN <<"install", "--upgrade">> ELSE <<"install">>

\* Not the code, a variant of it: a failed install is run a second time.
InstallStarted_Retrying(host, package_name, version, upgrade, outcome, show_outcome, installed, runs, found) ==
  InstallEnded(found.inst, host, package_name, outcome, show_outcome, installed,
               (runs \o found.runs)
                 \o (IF outcome.kind = "exit" /\ outcome.returncode = 0 THEN <<>>
                     ELSE <<Run(found.cmd, InstallArgs(upgrade), PackageSpec(package_name, version))>>)
                 \o <<Run(found.cmd, InstallArgs(upgrade), PackageSpec(package_name, version))>>)

\* found is what the second _find_pip returned.
InstallStarted(host, package_name, version, upgrade, outcome, show_outcome, installed, runs, found) ==
  InstallEnded(found.inst, host, package_name, outcome, show_outcome, installed,
               Append(runs \o found.runs,
                      Run(found.cmd, InstallArgs(upgrade), PackageSpec(package_name, version))))

\* avail is what is_pip_available returned.
InstallChecked(host, package_name, version, upgrade, outcome, show_outcome, installed, avail) ==
  IF ~avail.value
    THEN [value |-> InstallResult(FALSE, package_name, <<>>, <<>>,
                                  UnavailableError(is_docker_environment(host))),
          runs |-> avail.runs]
    ELSE InstallStarted(host, package_name, version, upgrade, outcome, show_outcome,
                        installed, avail.runs, _find_pip(avail.inst, host))

\* install(package_name, version, upgrade) of installer inst on host: the
\* InstallResult and the subprocesses run. outcome is how the install
\* subprocess ends if it is run, installed what pip has installed once it
\* ended, show_outcome how "pip show" ends if it is run.
install(inst, host, package_name, version, upgrade, outcome, show_outcome, installed) ==
  InstallChecked(host, package_name, version, upgrade, outcome, show_outcome, installed,
                 is_pip_available(inst, host))

\* The install subprocesses among runs.
InstallRuns(runs) == {i \in 1..Len(runs) : runs[i].args[1] = "install"}

(***************************************************************************)
(* views.PluginInstallView.post and models.InstallationLog                 *)
(***************************************************************************)
\* InstallationLog.Status and InstallationLog.Action
StatusChoices == {"pending", "in_progress", "success", "failed"}
ActionChoices == {"install", "upgrade", "uninstall"}

\* A row of InstallationLog; output and error are blank until set. saves is
\* not a column: it counts the row's save() calls.
LogRow(package_name, version, action, status) ==
  [package_name |-> package_name, version |-> version, action |-> action,
   status |-> status, output |-> <<>>, error |-> <<>>, saves |-> 0]

\* Not the code, a variant of it: the row is only updated when install succeeded.
LogSaved_SuccessOnly(row, result, version, plugin) ==
  IF result.success
    THEN [row EXCEPT !.status = "success",
                     !.output = result.output,
                     !.error = result.error,
                     !.version = Or(result.version, Or(version, plugin.version)),
                     !.saves = row.saves + 1]
    ELSE row

\* "log.status = ...; log.output = ...; ...; log.save()"
LogSaved(row, result, version, plugin) ==
  [row EXCEPT !.status = IF result.success THEN "success" ELSE "failed",
              !.output = result.output,
              !.error = result.error,
              !.version = Or(result.version, Or(version, plugin.version)),
              !.saves = row.saves + 1]

\* The steps of a request, in the order the handler took them.
Created == [kind |-> "InstallationLog.objects.create", run |-> Run(<<>>, <<>>, <<>>)]
Saved == [kind |-> "log.save", run |-> Run(<<>>, <<>>, <<>>)]
Subprocesses(runs) == [i \in 1..Len(runs) |-> [kind |-> "subprocess.run", run |-> runs[i]]]

\* No InstallResult: the request ended before install was called.
NoResult == [none |-> TRUE]

\* What post leaves when it returns before the form is accepted.
PostRefused(c, response) ==
  [response |-> response, cache |-> c, objects |-> InstallationLog_objects,
   result |-> NoResult, events |-> <<>>, log_id |-> 0]

\* Not the code, a variant of it: the row is created once install has returned.
PostInstalled_LogAfter(c, plugin, version, objects, log_id, r) ==
  [response |-> IF r.value.success THEN "redirect plugin_installed" ELSE "render error",
   cache |-> c,
   objects |-> [objects EXCEPT ![log_id] = LogSaved(objects[log_id], r.value, version, plugin)],
   result |-> r.value,
   events |-> (Subprocesses(r.runs) \o <<Created>>) \o <<Saved>>,
   log_id |-> log_id]

\* r is what installer.install returned; objects the table with the row
\* created, log_id the row's position.
PostInstalled(c, plugin, version, objects, log_id, r) ==
  [response |-> IF r.value.success THEN "redirect plugin_installed" ELSE "render error",
   cache |-> c,
   objects |-> [objects EXCEPT ![log_id] = LogSaved(objects[log_id], r.value, version, plugin)],
   result |-> r.value,
   events |-> (<<Created>> \o Subprocesses(r.runs)) \o <<Saved>>,
   log_id |-> log_id]

\* The form is valid: version and upgrade are what the handler computed.
PostAccepted(c, name, plugin, version, upgrade, host, outcome, show_outcome, installed) ==
  PostInstalled(c, plugin, version,
                Append(InstallationLog_objects,
                       LogRow(name, Or(version, plugin.version),
                              IF upgrade THEN "upgrade" ELSE "install", "in_progress")),
                Len(InstallationLog_objects) + 1,
                install(NewInstaller, host, name, version, upgrade, outcome, show_outcome,
                        installed))

\* Not the code, a variant of it: the form is not validated.
PostWithPlugin_FormUnchecked(name, form, host, outcome, show_outcome, installed, got) ==
  IF got.value = NonePlugin THEN PostRefused(got.cache, "redirect catalog_list")
  ELSE PostAccepted(got.cache, name, got.value, Or(form.version, None),
                    Truthy(got.value.installed_version), host, outcome, show_outcome,
                    installed)

\* got is what service.get_plugin(name) returned; form the posted InstallForm.
PostWithPlugin(name, form, host, outcome, show_outcome, installed, got) ==
  IF got.value = NonePlugin THEN PostRefused(got.cache, "redirect catalog_list")
  ELSE IF ~form.confirm THEN PostRefused(got.cache, "render form")
  ELSE PostAccepted(got.cache, name, got.value, Or(form.version, None),
                    Truthy(got.value.installed_version), host, outcome, show_outcome,
                    installed)

\* PluginInstallView.post(request, name)
post(name, form, fetch_outcome, pip_outcome, remote_outcome, host, outcome, show_outcome, installed) ==
  PostWithPlugin(name, form, host, outcome, show_outcome, installed,
                 get_plugin(cache, NewService, name, fetch_outcome, pip_outcome,
                            remote_outcome))

(***************************************************************************)
(* Environments the specifications start from                              *)
(***************************************************************************)
vars == <<in_flight, InstallationLog_objects, settings_VERSION, site_packages, plugins_config, now, cache, pypi, pip_env,
          settings_PLUGINS, catalog_env, svc, stale, ret>>

Str10 == <<"1", ".", "0">>
Str20 == <<"2", ".", "0">>

\* The JSON document of a package at a version, as the registry serves it.
PackageDoc(name, version) ==
  [info |-> [name |-> name,
             version |-> version,
             summary |-> <<"s">>,
             author_email |-> <<"A", " ", "<", "e", ">">>,
             keywords |-> <<"k", ",", " ", "n", ",">>,
             project_urls_Homepage |-> <<"h">>],
   releases |-> IF version = Str20 THEN <<Str10, Str20>> ELSE <<version>>]

NoCalls == [op |-> "none"]

NotStale == [cleared |-> {}, refreshed |-> {}]

EmptyCache == [k \in CacheKeys |-> NoEntry]

NoModules == [m \in {} |-> None]

NoCatalogEnv == [remote |-> EmptyCatalog,
                 local |-> [exists |-> FALSE, readable |-> FALSE, valid |-> FALSE,
                            doc |-> EmptyCatalog]]

\* The parts of the state a specification does not exercise.
IdleCompat == settings_VERSION = <<"4", ".", "0", ".", "0">> /\ site_packages = NoModules
IdleClient ==
  /\ plugins_config = EmptyDict
  /\ now = 0
  /\ cache = EmptyCache
  /\ pypi = [projects |-> <<>>, packages |-> EmptyDict]
  /\ stale = NotStale
\* The requests of the model, and a request that has not begun.
Requests == {1, 2}
NotBegun == [pc |-> "idle"]
IdleRequests == in_flight = [r \in Requests |-> NotBegun]
IdleInstall == InstallationLog_objects = <<>>
IdleService ==
  /\ pip_env = EmptyDict
  /\ settings_PLUGINS = {}
  /\ catalog_env = NoCatalogEnv
  /\ svc = NewService

(***************************************************************************)
(* SpecParse: parse_netbox_version on every string of ParseInputs          *)
(***************************************************************************)
MaxComponents == 3
MaxSuffixLen == 3

\* The values of a release component.
ComponentStrs == {<<"0">>, <<"4">>, <<"1", "0">>}

\* Dotted numbers of 1..k components.
RECURSIVE Dotted(_)
Dotted(k) ==
  IF k = 1 THEN ComponentStrs
  ELSE Dotted(k - 1) \cup {d \o <<".">> \o x : d \in Dotted(k - 1), x \in ComponentStrs}

SuffixChars == {"-", ".", "D", "a", "1"}

\* Every string over SuffixChars of length at most k.
RECURSIVE StringsUpTo(_)
StringsUpTo(k) ==
  IF k = 0 THEN {<<>>}
  ELSE StringsUpTo(k - 1)
         \cup {t \o <<ch>> : t \in {u \in StringsUpTo(k - 1) : Len(u) = k - 1},
                             ch \in SuffixChars}

ParseInputs ==
  {None} \cup {d \o t : d \in Dotted(MaxComponents) \cup {<<>>}, t \in StringsUpTo(MaxSuffixLen)}

InitParse ==
  /\ IdleRequests
  /\ IdleInstall
  /\ settings_VERSION \in ParseInputs
  /\ site_packages = NoModules
  /\ IdleClient /\ IdleService
  /\ ret = NoCalls

\* parse_netbox_version(settings.VERSION), as CompatibilityChecker.__init__ calls it
ParseNetboxVersion ==
  /\ ret.op = "none"
  /\ ret' = [op |-> "parse_netbox_version",
             arg |-> settings_VERSION,
             value |-> parse_netbox_version(settings_VERSION)]
  /\ UNCHANGED <<in_flight, InstallationLog_objects, settings_VERSION, site_packages, plugins_config, now, cache, pypi,
                 pip_env, settings_PLUGINS, catalog_env, svc, stale>>

NextParse == ParseNetboxVersion

SpecParse == InitParse /\ [][NextParse]_vars

(***************************************************************************)
(* SpecCompat: the CompatibilityChecker's methods, for each host version,  *)
(* installed module and argument of the sets below                         *)
(***************************************************************************)
HostVersions ==
  {<<"4", ".", "2", ".", "0">>,
   <<"3", ".", "9", ".", "0">>,
   <<"5", ".", "0", ".", "0">>,
   <<"4", ".", "5", ".", "1", "-", "D", "-", "3", ".", "4">>,
   <<"D">>}

\* Bounds a curated entry or a PluginConfig may hold: absent, empty,
\* well-formed and malformed ones.
BoundStrs ==
  {None,
   <<>>,
   <<"4", ".", "0", ".", "0">>,
   <<"4", ".", "2">>,
   <<"4", ".", "5", ".", "0">>,
   <<"5", ".", "0", ".", "0", "a", "1">>,
   <<"4", ".", "D">>,
   <<"D">>}

\* A PluginConfig class with the given bounds.
ConfigClass(min_version, max_version) ==
  [kind |-> "type",
   fields |-> [name |-> <<"p">>, version |-> Str10,
               min_version |-> min_version, max_version |-> max_version]]

\* Attributes that are not a PluginConfig: an instance, a class without name.
OtherAttrs ==
  <<[kind |-> "object", fields |-> [min_version |-> Str10, name |-> <<"o">>]],
    [kind |-> "type", fields |-> [min_version |-> Str10]]>>

Module(import, config, attrs) == [import |-> import, config |-> config, attrs |-> attrs]

\* What may be installed under a module name.
ModuleChoices ==
  {Module("ImportError", NoneObj, <<>>), Module("Exception", NoneObj, <<>>),
   Module("ok", NoneObj, OtherAttrs),
   Module("ok", NoneObj, OtherAttrs \o <<ConfigClass(<<"4", ".", "5", ".", "0">>, None)>>)}
    \cup {Module("ok", ConfigClass(lo, hi), <<>>) :
            lo \in {None, <<"4", ".", "0", ".", "0">>, <<"5", ".", "0", ".", "0", "a", "1">>},
            hi \in {None, <<"4", ".", "2">>, <<"D">>}}

ModuleA == Replace(PkgA, "-", "_")

SitePackagesChoices == {NoModules} \cup {[m \in {ModuleA} |-> x] : x \in ModuleChoices}

\* Curated entries as get_full_compatibility_info receives them.
CuratedEntries ==
  {EmptyDict, [category |-> <<"Other">>]}
    \cup {[netbox_min_version |-> lo, netbox_max_version |-> hi] :
            lo \in BoundStrs, hi \in BoundStrs}

InitCompat ==
  /\ IdleRequests
  /\ IdleInstall
  /\ settings_VERSION \in HostVersions
  /\ site_packages \in SitePackagesChoices
  /\ IdleClient /\ IdleService
  /\ ret = NoCalls

CompatFrame ==
  UNCHANGED <<in_flight, InstallationLog_objects, settings_VERSION, site_packages, plugins_config, now, cache, pypi,
              pip_env, settings_PLUGINS, catalog_env, svc, stale>>

GetPluginConstraints(package_name) ==
  /\ ret.op = "none"
  /\ ret' = [op |-> "get_plugin_constraints", package_name |-> package_name,
             value |-> get_plugin_constraints(package_name)]
  /\ CompatFrame

CheckCompatibility(package_name, min_version, max_version) ==
  /\ ret.op = "none"
  /\ ret' = [op |-> "check_compatibility", package_name |-> package_name,
             min_version |-> min_version, max_version |-> max_version,
             value |-> check_compatibility(package_name, min_version, max_version)]
  /\ CompatFrame

GetFullCompatibilityInfo(package_name, curated_data_arg) ==
  /\ ret.op = "none"
  /\ ret' = [op |-> "get_full_compatibility_info", package_name |-> package_name,
             curated_data |-> curated_data_arg,
             imported |-> CompatBounds(package_name, curated_data_arg).imported,
             value |-> get_full_compatibility_info(package_name, curated_data_arg)]
  /\ CompatFrame

VerifyAfterInstall(package_name) ==
  /\ ret.op = "none"
  /\ ret' = [op |-> "verify_after_install", package_name |-> package_name,
             value |-> verify_after_install(package_name)]
  /\ CompatFrame

NextCompat ==
  \/ \E n \in {PkgA, PkgB} : GetPluginConstraints(n)
  \/ \E n \in {PkgA}, lo \in BoundStrs, hi \in BoundStrs : CheckCompatibility(n, lo, hi)
  \/ \E n \in {PkgA, PkgB}, e \in CuratedEntries : GetFullCompatibilityInfo(n, e)
  \/ \E n \in {PkgA, PkgB} : VerifyAfterInstall(n)

SpecCompat == InitCompat /\ [][NextCompat]_vars

(***************************************************************************)
(* SpecClient: the PyPIClient and refresh_cache over a registry that       *)
(* changes and a clock that advances                                       *)
(***************************************************************************)
MaxTicks == 2

\* The clock advances by half a minute or by an hour.
TickSteps == {30, 3600}

\* The clock values MaxTicks steps reach.
RECURSIVE Times(_)
Times(k) == IF k = 0 THEN {0} ELSE Times(k - 1) \cup {t + d : t \in Times(k - 1), d \in TickSteps}

ClientConfigs == {EmptyDict, [pypi_cache_timeout |-> 30]}

Registry(docs) == [projects |-> <<PkgA, PkgOther, PkgB>>, packages |-> docs]

\* An index (a mirror, say) that lists no netbox- project.
BareIndex == [projects |-> <<PkgOther>>, packages |-> EmptyDict]

ClientRegistries == {Registry([n \in {PkgA} |-> PackageDoc(n, Str10)]), BareIndex}

InitClient ==
  /\ IdleRequests
  /\ IdleInstall
  /\ IdleCompat /\ IdleService
  /\ plugins_config \in ClientConfigs
  /\ now = 0
  /\ cache = EmptyCache
  /\ pypi \in ClientRegistries
  /\ stale = NotStale
  /\ ret = NoCalls

\* The keys of the registry's data that cache.get finds now.
CachedKeys(c) == {k \in CacheKeys \ {KeyInstalled} : CacheHit(c, k)}

\* The history after a read of key through the client.
Read(keys) == [cleared |-> stale.cleared \ keys, refreshed |-> stale.refreshed \ keys]

\* Time passes.
Tick(d) ==
  /\ now + d \in Times(MaxTicks)
  /\ now' = now + d
  /\ ret' = [op |-> "tick"]
  /\ UNCHANGED <<in_flight, InstallationLog_objects, settings_VERSION, site_packages, plugins_config, cache, pypi, pip_env,
                 settings_PLUGINS, catalog_env, svc, stale>>

\* The registry publishes release 2.0 of a package it has at 1.0.
PublishRelease(n) ==
  /\ InRegistry(n)
  /\ pypi.packages[n].info.version = Str10
  /\ pypi' = [pypi EXCEPT !.packages[n] = PackageDoc(n, Str20)]
  /\ ret' = [op |-> "publish"]
  /\ UNCHANGED <<in_flight, InstallationLog_objects, settings_VERSION, site_packages, plugins_config, now, cache, pip_env,
                 settings_PLUGINS, catalog_env, svc, stale>>

\* The registry publishes a package it did not have.
PublishProject(n) ==
  /\ ~InRegistry(n)
  /\ pypi' = [pypi EXCEPT !.packages = [m \in DOMAIN pypi.packages \cup {n} |->
                                          IF m = n THEN PackageDoc(n, Str10)
                                          ELSE pypi.packages[m]]]
  /\ ret' = [op |-> "publish"]
  /\ UNCHANGED <<in_flight, InstallationLog_objects, settings_VERSION, site_packages, plugins_config, now, cache, pip_env,
                 settings_PLUGINS, catalog_env, svc, stale>>

ClientFrame ==
  UNCHANGED <<in_flight, InstallationLog_objects, settings_VERSION, site_packages, plugins_config, now, pypi, pip_env,
              settings_PLUGINS, catalog_env, svc>>

\* r is what get_all_netbox_packages returned.
ListReturned(outcome, r) ==
  /\ cache' = r.cache
  /\ stale' = Read({KeyPackages})
  /\ ret' = [op |-> "get_all_netbox_packages", value |-> r.value, fetched |-> r.fetched,
             failed |-> r.fetched /\ outcome # "ok",
             after_clear |-> KeyPackages \in stale.cleared,
             after_refresh |-> KeyPackages \in stale.refreshed]

GetAllNetboxPackages(outcome) ==
  /\ ListReturned(outcome, get_all_netbox_packages(cache, outcome))
  /\ ClientFrame

\* r is what get_package_info(package_name) returned.
InfoReturned(package_name, outcome, r) ==
  /\ cache' = r.cache
  /\ stale' = Read({KeyPackage(package_name)})
  /\ ret' = [op |-> "get_package_info", package_name |-> package_name,
             value |-> r.value, fetched |-> r.fetched,
             failed |-> r.fetched /\ outcome # "ok",
             after_clear |-> KeyPackage(package_name) \in stale.cleared,
             after_refresh |-> KeyPackage(package_name) \in stale.refreshed]

GetPackageInfo(package_name, outcome) ==
  /\ InfoReturned(package_name, outcome, get_package_info(cache, package_name, outcome))
  /\ ClientFrame

ClearCache ==
  /\ cache' = clear_cache(cache)
  /\ stale' = [stale EXCEPT !.cleared = CachedKeys(cache)]
  /\ ret' = [op |-> "clear_cache"]
  /\ ClientFrame

\* The mark of the in-process curated catalog in the history.
CuratedMark == <<"_curated_data">>

\* What the service holds of the inventory and of the curated catalog now.
Held(c, s) ==
  (IF CacheHit(c, KeyInstalled) \/ s._installed_packages.loaded THEN {KeyInstalled} ELSE {})
    \cup (IF s._curated_data.loaded THEN {CuratedMark} ELSE {})

\* r is what refresh_cache leaves.
Refreshed(r) ==
  /\ cache' = r.cache
  /\ svc' = r.svc
  /\ stale' = [cleared |-> CachedKeys(cache),
               refreshed |-> CachedKeys(cache) \cup Held(cache, svc)]
  /\ ret' = [op |-> "refresh_cache"]

RefreshCache ==
  /\ Refreshed(refresh_cache(cache, svc))
  /\ UNCHANGED <<in_flight, InstallationLog_objects, settings_VERSION, site_packages, plugins_config, now, pypi, pip_env,
                 settings_PLUGINS, catalog_env>>

NextClient ==
  \/ \E d \in TickSteps : Tick(d)
  \/ \E n \in {PkgA} : PublishRelease(n)
  \/ \E n \in {PkgB} : PublishProject(n)
  \/ \E o \in ClientOutcomes : GetAllNetboxPackages(o)
  \/ \E n \in {PkgA, PkgB}, o \in ClientOutcomes : GetPackageInfo(n, o)
  \/ ClearCache
  \/ RefreshCache

SpecClient == InitClient /\ [][NextClient]_vars

(***************************************************************************)
(* Spec: the CatalogService over the shared cache, for each registry,      *)
(* installation and curated catalog of the sets below                      *)
(***************************************************************************)
Str400 == <<"4", ".", "0", ".", "0">>

\* The JSON document of a package whose info carries no version.
UnversionedDoc(name) ==
  [info |-> [name |-> name, summary |-> <<"s">>, author |-> <<"A">>],
   releases |-> <<>>]

Registries ==
  {Registry([n \in {PkgA} |-> PackageDoc(n, Str10)]),
   Registry([n \in {PkgA, PkgB} |-> PackageDoc(n, IF n = PkgA THEN Str20 ELSE Str10)]),
   Registry([n \in {PkgA, PkgB} |->
               IF n = PkgA THEN PackageDoc(n, Str10) ELSE UnversionedDoc(n)])}

\* What is installed: pip's list, the importable modules, the activated ones.
Installation(pip, modules, activated) ==
  [pip_env |-> pip, site_packages |-> modules, settings_PLUGINS |-> activated]

Installations ==
  {Installation(EmptyDict, NoModules, {}),
   Installation([n \in {PkgA} |-> Str10],
                [m \in {ModuleA} |-> Module("ok", ConfigClass(Str400, None), <<>>)],
                {ModuleA}),
   Installation([n \in {PkgA, PkgB} |-> Str10],
                [m \in {ModuleA} |->
                   Module("ok", ConfigClass(<<"5", ".", "0", ".", "0", "a", "1">>, None), <<>>)],
                {})}

\* A curated catalog document with an entry for PkgA.
CatalogDoc ==
  [plugins |-> [n \in {PkgA} |->
                  [category |-> <<"Monitoring">>,
                   certification |-> <<"certified">>,
                   netbox_min_version |-> Str400,
                   featured |-> TRUE]],
   categories |-> <<<<"Monitoring">>, <<"Other">>>>,
   certification_levels |-> [certified |-> <<"c">>]]

CatalogEnvs ==
  {NoCatalogEnv,
   [remote |-> EmptyCatalog,
    local |-> [exists |-> TRUE, readable |-> TRUE, valid |-> TRUE, doc |-> CatalogDoc]]}

Init ==
  /\ IdleRequests
  /\ IdleInstall
  /\ settings_VERSION = <<"4", ".", "2", ".", "0">>
  /\ \E i \in Installations :
       /\ pip_env = i.pip_env
       /\ site_packages = i.site_packages
       /\ settings_PLUGINS = i.settings_PLUGINS
  /\ plugins_config = EmptyDict
  /\ now = 0
  /\ cache = EmptyCache
  /\ pypi \in Registries
  /\ catalog_env \in CatalogEnvs
  /\ svc = NewService
  /\ stale = NotStale
  /\ ret = NoCalls

ServiceFrame ==
  UNCHANGED <<in_flight, InstallationLog_objects, settings_VERSION, site_packages, plugins_config, now, pypi, pip_env,
              settings_PLUGINS, catalog_env>>

\* A view constructs its CatalogService.
Construct ==
  /\ svc' = NewService
  /\ ret' = [op |-> "CatalogService"]
  /\ UNCHANGED <<cache, stale>>
  /\ ServiceFrame

\* The keys get_all_plugins read through the client: the list's, and the key
\* of every listed package it did not skip.
KeysRead(package_names, include_uncurated, s) ==
  {KeyPackages} \cup
    {KeyPackage(n) : n \in {package_names[i] : i \in 1..Len(package_names)}
                            \ (IF include_uncurated \/ ~s._curated_data.loaded THEN {}
                               ELSE Names \ DOMAIN s._curated_data.value.plugins)}

\* The listed names for which get_package_info has a dict to give, from cache c.
WithInfo(package_names, c, outcomes) ==
  {n \in {package_names[i] : i \in 1..Len(package_names)} :
     get_package_info(c, n, outcomes[n]).value \notin {NoneInfo, Raised}}

\* r is what get_all_plugins returned and left; package_names what it listed.
AllReturned(include_uncurated, package_names, with_info, r) ==
  /\ cache' = r.cache
  /\ svc' = r.svc
  /\ stale' = Read(KeysRead(package_names, include_uncurated, r.svc)
                     \cup {KeyInstalled}
                     \cup (IF package_names = <<>> THEN {} ELSE {CuratedMark}))
  /\ ret' = [op |-> "get_all_plugins", include_uncurated |-> include_uncurated,
             value |-> r.value, raised |-> r.raised, package_names |-> package_names,
             with_info |-> with_info]

\* listed is what get_all_netbox_packages returned.
AllListed(include_uncurated, outcomes, listed, r) ==
  AllReturned(include_uncurated, listed.value, WithInfo(listed.value, cache, outcomes), r)

GetAllPlugins(include_uncurated, index_outcome, outcomes, pip_outcome, remote_outcome) ==
  /\ AllListed(include_uncurated, outcomes,
               get_all_netbox_packages(cache, index_outcome),
               get_all_plugins(cache, svc, include_uncurated, index_outcome, outcomes,
                               pip_outcome, remote_outcome))
  /\ ServiceFrame

\* r is what get_plugin(name) returned and left; failed, that the request for
\* the package's JSON was sent and did not succeed.
OneReturned(name, failed, r) ==
  /\ cache' = r.cache
  /\ svc' = r.svc
  /\ stale' = Read({KeyPackage(name)}
                     \cup (IF r.value = NonePlugin THEN {} ELSE {KeyInstalled, CuratedMark}))
  /\ ret' = [op |-> "get_plugin", name |-> name, value |-> r.value, failed |-> failed]

GetPlugin(name, outcome, pip_outcome, remote_outcome) ==
  /\ OneReturned(name, outcome # "ok" /\ ~CacheHit(cache, KeyPackage(name)),
                 get_plugin(cache, svc, name, outcome, pip_outcome, remote_outcome))
  /\ ServiceFrame

\* How the request for the remote catalog may end; with no catalog_json_url
\* none is sent.
RemoteOutcomes ==
  IF Truthy(DictGet(plugins_config, "catalog_json_url", None)) THEN Outcomes ELSE {"ok"}

Next ==
  \/ Construct
  \/ \E inc \in BOOLEAN, io \in Outcomes, os \in [{PkgA, PkgB} -> Outcomes],
        po \in PipOutcomes, ro \in RemoteOutcomes :
       GetAllPlugins(inc, io, os, po, ro)
  \/ \E n \in Names, o \in Outcomes, po \in PipOutcomes, ro \in RemoteOutcomes :
       GetPlugin(n, o, po, ro)
  \/ RefreshCache

Spec == Init /\ [][Next]_vars

(***************************************************************************)
(* SpecInventory: the service's inventory of installed packages and its    *)
(* curated catalog, while time passes, packages get installed and the      *)
(* catalog's sources change                                                *)
(***************************************************************************)
\* pip's list before and after netbox-a is installed. NetBox runs on Django,
\* so the list is never empty.
InventoryBase == [n \in {PkgOther} |-> Str400]
InventoryWithA == [n \in {PkgOther, PkgA} |-> IF n = PkgA THEN Str10 ELSE Str400]

\* The bundled catalog.json, where it differs from the remote document.
LocalCatalogDoc ==
  [plugins |-> EmptyDict, categories |-> <<<<"Other">>>>, certification_levels |-> EmptyDict]

\* The bundled file: absent, good, not JSON, or not readable.
LocalFiles ==
  {[exists |-> FALSE, readable |-> FALSE, valid |-> FALSE, doc |-> EmptyCatalog],
   [exists |-> TRUE, readable |-> TRUE, valid |-> TRUE, doc |-> LocalCatalogDoc],
   [exists |-> TRUE, readable |-> TRUE, valid |-> FALSE, doc |-> EmptyCatalog],
   [exists |-> TRUE, readable |-> FALSE, valid |-> FALSE, doc |-> EmptyCatalog]}

InventoryConfigs ==
  {EmptyDict, [pypi_cache_timeout |-> 30, catalog_json_url |-> <<"u">>]}

InitInventory ==
  /\ IdleRequests
  /\ IdleInstall
  /\ IdleCompat
  /\ plugins_config \in InventoryConfigs
  /\ now = 0
  /\ cache = EmptyCache
  /\ pypi = [projects |-> <<>>, packages |-> EmptyDict]
  /\ pip_env = InventoryBase
  /\ settings_PLUGINS = {}
  /\ catalog_env \in [remote : {CatalogDoc}, local : LocalFiles]
  /\ svc = NewService
  /\ stale = NotStale
  /\ ret = NoCalls

\* pip installs netbox-a.
PipInstalls ==
  /\ pip_env = InventoryBase
  /\ pip_env' = InventoryWithA
  /\ ret' = [op |-> "pip install"]
  /\ UNCHANGED <<in_flight, InstallationLog_objects, settings_VERSION, site_packages, plugins_config, now, cache, pypi,
                 settings_PLUGINS, catalog_env, svc, stale>>

\* The remote catalog document is replaced.
CatalogPublished ==
  /\ catalog_env.remote = CatalogDoc
  /\ catalog_env' = [catalog_env EXCEPT !.remote = LocalCatalogDoc]
  /\ ret' = [op |-> "catalog published"]
  /\ UNCHANGED <<in_flight, InstallationLog_objects, settings_VERSION, site_packages, plugins_config, now, cache, pypi, pip_env,
                 settings_PLUGINS, svc, stale>>

\* r is what _get_installed_packages returned and left.
\* r is what _get_installed_packages returned.
InventoryReturned(pip_outcome, r) ==
  /\ cache' = r.cache
  /\ svc' = r.svc
  /\ stale' = Read({KeyInstalled})
  /\ ret' = [op |-> "_get_installed_packages", value |-> r.value, ran |-> r.ran,
             failed |-> r.ran /\ pip_outcome # "ok",
             source |-> IF svc._installed_packages.loaded THEN "instance"
                        ELSE IF r.ran THEN "pip" ELSE "cache",
             after_refresh |-> KeyInstalled \in stale.refreshed]

GetInstalledPackages(pip_outcome) ==
  /\ InventoryReturned(pip_outcome, _get_installed_packages(cache, svc, pip_outcome))
  /\ ServiceFrame

\* How the request for the remote catalog may end when one is sent.
LoadOutcomes ==
  IF Truthy(DictGet(plugins_config, "catalog_json_url", None))
    THEN Outcomes \cup {"ValueError"} ELSE {"ok"}

\* r is what the curated_data property returned and left.
CuratedReturned(remote_outcome, r) ==
  /\ svc' = r.svc
  /\ stale' = Read({CuratedMark})
  /\ ret' = [op |-> "curated_data", value |-> r.value,
             reloaded |-> ~svc._curated_data.loaded,
             remote_outcome |-> IF svc._curated_data.loaded THEN "none" ELSE remote_outcome,
             after_refresh |-> CuratedMark \in stale.refreshed]

CuratedData(remote_outcome) ==
  /\ CuratedReturned(remote_outcome, curated_data(svc, remote_outcome))
  /\ UNCHANGED cache
  /\ ServiceFrame

NextInventory ==
  \/ \E d \in TickSteps : Tick(d)
  \/ PipInstalls
  \/ CatalogPublished
  \/ Construct
  \/ \E po \in PipOutcomes : GetInstalledPackages(po)
  \/ \E ro \in LoadOutcomes : CuratedData(ro)
  \/ RefreshCache

SpecInventory == InitInventory /\ [][NextInventory]_vars

(***************************************************************************)
(* SpecInstall: install requests (PluginInstallView.post, which calls      *)
(* PluginInstaller.install), with allow_install set either way, on hosts   *)
(* with and without a working pip                                          *)
(***************************************************************************)
MaxLogs == 1

PipPath == <<"bin/pip">>

Host(candidates, working, docker) ==
  [candidates |-> candidates, working |-> working, docker |-> docker]

Hosts ==
  {Host(<<PipPath, PythonM>>, {PipPath, PythonM}, FALSE),
   Host(<<PipPath, PythonM>>, {PythonM}, TRUE),
   Host(<<PythonM>>, {}, TRUE),
   Host(<<PipPath, PythonM>>, {}, FALSE)}

SubprocessOutcomes ==
  {Exited(0, <<"o">>, <<>>), Exited(1, <<"o">>, <<"e">>), TimeoutExpired,
   RunException(<<"x">>)}

ShowOutcomes == {"ok", "failed"}

InstallForms == [version : {<<>>, Str20}, confirm : BOOLEAN]

InstallConfigs == {[allow_install |-> TRUE], [allow_install |-> FALSE]}

InitInstall ==
  /\ IdleRequests
  /\ IdleInstall
  /\ IdleCompat
  /\ plugins_config \in InstallConfigs
  /\ now = 0
  /\ cache = EmptyCache
  /\ pypi = Registry([n \in {PkgA} |-> PackageDoc(n, Str20)])
  /\ pip_env \in {InventoryBase, InventoryWithA}
  /\ settings_PLUGINS = {}
  /\ catalog_env = NoCatalogEnv
  /\ svc = NewService
  /\ stale = NotStale
  /\ ret = NoCalls

\* What pip has installed once "pip install" of the package ended with outcome:
\* on exit code 0 the version asked for, or the registry's latest.
PipAfter(package_name, version, outcome) ==
  IF outcome.kind = "exit" /\ outcome.returncode = 0 /\ package_name \in DOMAIN pypi.packages
    THEN [n \in DOMAIN pip_env \cup {package_name} |->
            IF n = package_name
              THEN Or(version, pypi.packages[package_name].info.version)
              ELSE pip_env[n]]
    ELSE pip_env

InstallFrame ==
  UNCHANGED <<in_flight, settings_VERSION, site_packages, plugins_config, now, pypi, settings_PLUGINS,
              catalog_env, svc, stale>>

\* Whether install was run among the steps of a request.
InstallRan(events) ==
  \E i \in 1..Len(events) :
    events[i].kind = "subprocess.run" /\ events[i].run.args[1] = "install"

\* r is what post left. host and outcome, which the handler did not choose,
\* are recorded when install was called.
PostReturned(name, form, host, outcome, r) ==
  /\ cache' = r.cache
  /\ InstallationLog_objects' = r.objects
  /\ pip_env' = IF InstallRan(r.events)
                  THEN PipAfter(name, Or(form.version, None), outcome) ELSE pip_env
  /\ ret' = IF r.result = NoResult
              THEN [op |-> "PluginInstallView.post", name |-> name,
                    response |-> r.response, result |-> r.result, events |-> r.events,
                    log_id |-> r.log_id, confirm |-> form.confirm]
              ELSE [op |-> "PluginInstallView.post", name |-> name,
                    response |-> r.response, result |-> r.result, events |-> r.events,
                    log_id |-> r.log_id, confirm |-> form.confirm,
                    version |-> Or(form.version, None), host |-> host, outcome |-> outcome]

PluginInstallViewPost(name, form, host, outcome, show_outcome) ==
  /\ Len(InstallationLog_objects) < MaxLogs
  /\ PostReturned(name, form, host, outcome,
                  post(name, form, "ok", "ok", "ok", host, outcome, show_outcome,
                       PipAfter(name, Or(form.version, None), outcome)))
  /\ InstallFrame

NextInstall ==
  \E n \in {PkgA, PkgB}, f \in InstallForms, h \in Hosts, o \in SubprocessOutcomes,
     so \in ShowOutcomes :
    PluginInstallViewPost(n, f, h, o, so)

SpecInstall == InitInstall /\ [][NextInstall]_vars

(***************************************************************************)
(* SpecList: get_all_plugins while the requests for single packages end in *)
(* every way a request of the client can end                               *)
(***************************************************************************)
InitList ==
  /\ IdleRequests
  /\ IdleInstall
  /\ settings_VERSION = <<"4", ".", "2", ".", "0">>
  /\ site_packages = NoModules
  /\ plugins_config = EmptyDict
  /\ now = 0
  /\ cache = EmptyCache
  /\ pypi \in Registries
  /\ pip_env = EmptyDict
  /\ settings_PLUGINS = {}
  /\ catalog_env \in CatalogEnvs
  /\ svc = NewService
  /\ stale = NotStale
  /\ ret = NoCalls

NextList ==
  \/ Construct
  \/ \E inc \in BOOLEAN, os \in [{PkgA, PkgB} -> ClientOutcomes] :
       GetAllPlugins(inc, "ok", os, "ok", "ok")
  \/ RefreshCache

SpecList == InitList /\ [][NextList]_vars

(***************************************************************************)
(* SpecRace: two requests going through get_all_netbox_packages or         *)
(* get_package_info("netbox-a") one statement at a time (cache.get, the    *)
(* HTTP request, cache.set and return), interleaved in every order, while  *)
(* the registry changes                                                    *)
(***************************************************************************)
RaceOps == {"get_all_netbox_packages", "get_package_info"}

\* The cache key the method works with (get_package_info is called for PkgA).
RaceKey(op) == IF op = "get_all_netbox_packages" THEN KeyPackages ELSE KeyPackage(PkgA)

\* "cached = cache.get(cache_key); if cached:"
RaceHit(op) ==
  CacheHit(cache, RaceKey(op))
    /\ (op = "get_all_netbox_packages" => cache[KeyPackages].value # <<>>)

\* What a successful request gives at this moment: the filtered project
\* names, or the package_info dict.
RaceFetch(op) ==
  IF op = "get_all_netbox_packages" THEN FilterNetbox(pypi.projects)
  ELSE PackageInfo(pypi.packages[PkgA])

\* The except branch's return value.
RaceFallback(op) == IF op = "get_all_netbox_packages" THEN <<>> ELSE NoneInfo

\* Not the code, a variant of it: an entry another request wrote meanwhile is kept and returned.
StoreResult_FirstWins(op, c, got) ==
  IF CacheHit(c, RaceKey(op)) THEN [value |-> c[RaceKey(op)].value, cache |-> c, fetched |-> TRUE]
  ELSE IF op = "get_all_netbox_packages" THEN ListFetched(c, got)
  ELSE InfoFetched(c, PkgA, got)

\* "cache.set(cache_key, ..., self.cache_timeout); return ..." on cache c
StoreResult(op, c, got) ==
  IF op = "get_all_netbox_packages" THEN ListFetched(c, got) ELSE InfoFetched(c, PkgA, got)

RaceEntries ==
  [k \in CacheKeys |->
     IF k = KeyPackages THEN [present |-> TRUE, value |-> <<PkgA>>, expires |-> 30]
     ELSE IF k = KeyPackage(PkgA)
       THEN [present |-> TRUE, value |-> PackageInfo(PackageDoc(PkgA, Str10)), expires |-> 30]
     ELSE NoEntry]

\* Both entries were written at 0 with a timeout of 30; at 30 they have expired.
InitRace ==
  /\ IdleRequests
  /\ IdleInstall
  /\ IdleCompat /\ IdleService
  /\ plugins_config = [pypi_cache_timeout |-> 30]
  /\ now \in {0, 30}
  /\ cache = RaceEntries
  /\ pypi = [projects |-> <<PkgA, PkgOther>>,
             packages |-> [n \in {PkgA} |-> PackageDoc(n, Str10)]]
  /\ stale = NotStale
  /\ ret = NoCalls

RaceFrame ==
  UNCHANGED <<InstallationLog_objects, settings_VERSION, site_packages, plugins_config, now,
              pip_env, settings_PLUGINS, catalog_env, svc, stale, ret>>

\* The index lists a project it did not list.
ProjectListed(n) ==
  /\ \A i \in 1..Len(pypi.projects) : pypi.projects[i] # n
  /\ pypi' = [pypi EXCEPT !.projects = Append(pypi.projects, n)]
  /\ UNCHANGED <<in_flight, cache>>
  /\ RaceFrame

\* The registry publishes release 2.0 of a package.
ReleasePublished(n) ==
  /\ pypi.packages[n].info.version = Str10
  /\ pypi' = [pypi EXCEPT !.packages[n] = PackageDoc(n, Str20)]
  /\ UNCHANGED <<in_flight, cache>>
  /\ RaceFrame

\* Request r enters the method and reads the cache.
RaceLookup(r, op) ==
  /\ in_flight[r].pc = "idle"
  /\ in_flight' = [in_flight EXCEPT ![r] =
       IF RaceHit(op)
         THEN [pc |-> "done", op |-> op, value |-> cache[RaceKey(op)].value,
               fetched |-> FALSE, stored |-> 0]
         ELSE [pc |-> "requesting", op |-> op]]
  /\ UNCHANGED <<cache, pypi>>
  /\ RaceFrame

\* The stores made so far.
Stores == {in_flight[q].stored : q \in {p \in Requests : in_flight[p].pc = "done"}} \ {0}

\* Request r's HTTP request ends: with a response, whose content r now holds,
\* or with a RequestException, on which r returns the fallback.
RaceRespond(r, outcome) ==
  /\ in_flight[r].pc = "requesting"
  /\ in_flight' = [in_flight EXCEPT ![r] =
       IF outcome = "ok"
         THEN [pc |-> "responded", op |-> in_flight[r].op, got |-> RaceFetch(in_flight[r].op)]
         ELSE [pc |-> "done", op |-> in_flight[r].op,
               value |-> RaceFallback(in_flight[r].op), fetched |-> TRUE, stored |-> 0]]
  /\ UNCHANGED <<cache, pypi>>
  /\ RaceFrame

\* res is what the cache.set and the return statement leave.
RaceStored(r, res) ==
  /\ cache' = res.cache
  /\ in_flight' = [in_flight EXCEPT ![r] =
       [pc |-> "done", op |-> in_flight[r].op, value |-> res.value, fetched |-> TRUE,
        got |-> in_flight[r].got, stored |-> Cardinality(Stores) + 1]]

\* Request r writes what it fetched to the cache and returns it.
RaceStore(r) ==
  /\ in_flight[r].pc = "responded"
  /\ RaceStored(r, StoreResult(in_flight[r].op, cache, in_flight[r].got))
  /\ UNCHANGED pypi
  /\ RaceFrame

NextRace ==
  \/ ProjectListed(PkgB)
  \/ ReleasePublished(PkgA)
  \/ \E r \in Requests, op \in RaceOps : RaceLookup(r, op)
  \/ \E r \in Requests, o \in Outcomes : RaceRespond(r, o)
  \/ \E r \in Requests : RaceStore(r)

SpecRace == InitRace /\ [][NextRace]_vars

(***************************************************************************)
(* SpecConcurrent: two install requests handled at the same time (two      *)
(* workers): each goes through PluginInstallView.post up to the call of    *)
(* installer.install, stays there while pip runs, and finishes the handler *)
(* when install returns                                                    *)
(***************************************************************************)
ConcurrentHosts ==
  {Host(<<PipPath, PythonM>>, {PipPath, PythonM}, FALSE), Host(<<PythonM>>, {}, TRUE)}

InitConcurrent ==
  /\ IdleRequests
  /\ IdleInstall
  /\ IdleCompat
  /\ plugins_config = [allow_install |-> TRUE]
  /\ now = 0
  /\ cache = EmptyCache
  /\ pypi = Registry([n \in {PkgA} |-> PackageDoc(n, Str20)])
  /\ pip_env \in {InventoryBase, InventoryWithA}
  /\ settings_PLUGINS = {}
  /\ catalog_env = NoCatalogEnv
  /\ svc = NewService
  /\ stale = NotStale
  /\ ret = NoCalls

ConcurrentFrame ==
  UNCHANGED <<settings_VERSION, site_packages, plugins_config, now, pypi, settings_PLUGINS,
              catalog_env, svc, stale, ret>>

\* Not the code, a variant of it: a row of the package that is in progress is taken over.
LogCreated_Shared(objects, row) ==
  IF \E i \in 1..Len(objects) :
       objects[i].package_name = row.package_name /\ objects[i].status = "in_progress"
    THEN [objects |-> objects,
          log_id |-> CHOOSE i \in 1..Len(objects) :
                       objects[i].package_name = row.package_name
                         /\ objects[i].status = "in_progress"]
    ELSE [objects |-> Append(objects, row), log_id |-> Len(objects) + 1]

\* InstallationLog.objects.create(...): the table and the new row's position.
LogCreated(objects, row) == [objects |-> Append(objects, row), log_id |-> Len(objects) + 1]

\* created is what InstallationLog.objects.create left; the handler now calls
\* installer.install.
ConcurrentCreated(r, name, version, host, plugin, created) ==
  /\ InstallationLog_objects' = created.objects
  /\ in_flight' = [in_flight EXCEPT ![r] =
       [pc |-> "installing", name |-> name, version |-> version,
        upgrade |-> Truthy(plugin.installed_version), host |-> host, plugin |-> plugin,
        log_id |-> created.log_id]]

\* got is what service.get_plugin(name) returned.
ConcurrentBegun(r, name, form, host, got) ==
  /\ cache' = got.cache
  /\ IF got.value = NonePlugin \/ ~form.confirm
       THEN /\ in_flight' = [in_flight EXCEPT ![r] =
                 [pc |-> "done", name |-> name, log_id |-> 0,
                  response |-> PostWithPlugin(name, form, host, TimeoutExpired, "ok",
                                              pip_env, got).response]]
            /\ UNCHANGED InstallationLog_objects
       ELSE ConcurrentCreated(r, name, Or(form.version, None), host, got.value,
              LogCreated(InstallationLog_objects,
                         LogRow(name, Or(Or(form.version, None), got.value.version),
                                IF Truthy(got.value.installed_version)
                                  THEN "upgrade" ELSE "install",
                                "in_progress")))

\* Request r arrives: post runs up to "result = installer.install(...)".
ConcurrentBegin(r, name, form, host) ==
  /\ in_flight[r].pc = "idle"
  /\ ConcurrentBegun(r, name, form, host,
                     get_plugin(cache, NewService, name, "ok", "ok", "ok"))
  /\ UNCHANGED pip_env
  /\ ConcurrentFrame

\* res is what the rest of the handler leaves, install having returned.
ConcurrentEnded(r, outcome, res) ==
  /\ InstallationLog_objects' = res.objects
  /\ pip_env' = IF InstallRan(res.events)
                  THEN PipAfter(in_flight[r].name, in_flight[r].version, outcome)
                  ELSE pip_env
  /\ in_flight' = [in_flight EXCEPT ![r] =
       [pc |-> "done", name |-> in_flight[r].name, log_id |-> in_flight[r].log_id,
        response |-> res.response, result |-> res.result, outcome |-> outcome,
        host |-> in_flight[r].host]]

\* installer.install returns in request r; the handler saves the row and responds.
ConcurrentEnd(r, outcome, show_outcome) ==
  /\ in_flight[r].pc = "installing"
  /\ ConcurrentEnded(r, outcome,
       PostInstalled(cache, in_flight[r].plugin, in_flight[r].version,
                     InstallationLog_objects, in_flight[r].log_id,
                     install(NewInstaller, in_flight[r].host, in_flight[r].name,
                             in_flight[r].version, in_flight[r].upgrade, outcome,
                             show_outcome,
                             PipAfter(in_flight[r].name, in_flight[r].version, outcome))))
  /\ UNCHANGED cache
  /\ ConcurrentFrame

NextConcurrent ==
  \/ \E r \in Requests, n \in {PkgA, PkgB}, f \in InstallForms, h \in ConcurrentHosts :
       ConcurrentBegin(r, n, f, h)
  \/ \E r \in Requests, o \in SubprocessOutcomes, so \in ShowOutcomes :
       ConcurrentEnd(r, o, so)

SpecConcurrent == InitConcurrent /\ [][NextConcurrent]_vars

(***************************************************************************)
(* SpecFetch: the three reads that go through the shared cache, each ending *)
(* in every way its source can end, by views that construct their service  *)
(***************************************************************************)
InitFetch ==
  /\ IdleRequests
  /\ IdleInstall
  /\ IdleCompat
  /\ plugins_config \in ClientConfigs
  /\ now = 0
  /\ cache = EmptyCache
  /\ pypi = Registry([n \in {PkgA} |-> PackageDoc(n, Str10)])
  /\ pip_env = InventoryBase
  /\ settings_PLUGINS = {}
  /\ catalog_env = NoCatalogEnv
  /\ svc = NewService
  /\ stale = NotStale
  /\ ret = NoCalls

NextFetch ==
  \/ \E d \in TickSteps : Tick(d)
  \/ Construct
  \/ \E o \in ClientOutcomes : GetAllNetboxPackages(o)
  \/ \E n \in {PkgA, PkgB}, o \in ClientOutcomes : GetPackageInfo(n, o)
  \/ \E po \in PipOutcomes : GetInstalledPackages(po)

SpecFetch == InitFetch /\ [][NextFetch]_vars

(***************************************************************************)
(* SpecMerge: _merge_plugin_info on a package's registry info and every    *)
(* curated entry of MergeEntries                                           *)
(***************************************************************************)
\* The keys _merge_plugin_info reads from a curated entry.
CuratedFields ==
  {"category", "tags", "certification", "netbox_min_version", "netbox_max_version",
   "notes", "recommended", "featured", "documentation_url", "replacement"}

\* A value an entry may give the field, other than the one the merge falls
\* back to.
CuratedValue(f) ==
  CASE f = "category" -> <<"Monitoring">>
    [] f = "tags" -> <<<<"t">>>>
    [] f = "certification" -> <<"certified">>
    [] f = "netbox_min_version" -> Str400
    [] f = "netbox_max_version" -> <<"4", ".", "2", ".", "0">>
    [] f = "notes" -> <<"n">>
    [] f = "recommended" -> FALSE
    [] f = "featured" -> TRUE
    [] f = "documentation_url" -> <<"d">>
    [] f = "replacement" -> <<"r">>

\* The curated entries: every subset of the fields, {} included.
MergeEntries == {[f \in S |-> CuratedValue(f)] : S \in SUBSET CuratedFields}

MergeInfos == {PackageInfo(PackageDoc(PkgA, Str10)), PackageInfo(UnversionedDoc(PkgB))}

InitMerge ==
  /\ IdleRequests
  /\ IdleInstall
  /\ IdleCompat
  /\ IdleClient /\ IdleService
  /\ ret = NoCalls

\* self._merge_plugin_info(name, pypi_info, curated_info)
MergePluginInfo(name, pypi_info, curated_info) ==
  /\ ret.op = "none"
  /\ ret' = [op |-> "_merge_plugin_info", name |-> name, pypi_info |-> pypi_info,
             curated_info |-> curated_info,
             value |-> _merge_plugin_info(name, pypi_info, curated_info)]
  /\ UNCHANGED <<in_flight, InstallationLog_objects, settings_VERSION, site_packages, plugins_config, now, cache, pypi,
                 pip_env, settings_PLUGINS, catalog_env, svc, stale>>

NextMerge ==
  \E pypi_info \in MergeInfos, curated_info \in MergeEntries :
    MergePluginInfo(pypi_info.name, pypi_info, curated_info)

SpecMerge == InitMerge /\ [][NextMerge]_vars

(***************************************************************************)
(* Properties of parse_netbox_version (SpecParse)                          *)
(***************************************************************************)
\* s[a..b] is a non-empty run of digits.
AllDigits(s, a, b) == a <= b /\ \A x \in a..b : IsDigit(s[x])

\* The lengths k such that s[1..k] is MAJOR.MINOR.PATCH, three dotted numbers.
TriplePrefixes(s) ==
  IF s = None THEN {}
  ELSE {k \in 1..Len(s) :
          \E i \in 1..Len(s), j \in 1..Len(s) :
            /\ i < j /\ j < k
            /\ AllDigits(s, 1, i - 1) /\ s[i] = "."
            /\ AllDigits(s, i + 1, j - 1) /\ s[j] = "."
            /\ AllDigits(s, j + 1, k)}

MaxOf(S) == CHOOSE k \in S : \A x \in S : x <= k

\* The length of the dotted number s starts with (any number of components).
NumberLen(s) == IF Truthy(s) /\ IsDigit(s[1]) THEN ReleaseEnd(s, 1) - 1 ELSE 0

\* s is a version number followed by a vendor suffix such as "-Docker-3.4.2".
HasVendorSuffix(s) ==
  /\ NumberLen(s) > 0
  /\ Len(s) >= NumberLen(s) + 2
  /\ s[NumberLen(s) + 1] = "-"
  /\ s[NumberLen(s) + 2] = "D"

Parsed == ret.op = "parse_netbox_version"

\* C7 as stated: for every version string with a vendor suffix after a version
\* number, parse of the string equals parse of the version number alone.
C7_SuffixIgnored ==
  (Parsed /\ HasVendorSuffix(ret.arg))
    => VersionEq(ret.value, parse_netbox_version(SubSeq(ret.arg, 1, NumberLen(ret.arg))))

\* C7 amended: for every version string that is not itself a valid version and
\* starts with three dotted numbers MAJOR.MINOR.PATCH, parse of the string
\* equals parse of that MAJOR.MINOR.PATCH.
C7_TripleSuffixIgnored ==
  (Parsed /\ ~Version(ret.arg).ok /\ TriplePrefixes(ret.arg) # {})
    => /\ ret.value.ok
       /\ VersionEq(ret.value,
                    parse_netbox_version(SubSeq(ret.arg, 1, MaxOf(TriplePrefixes(ret.arg)))))

\* parse("4.0.10-D.") was computed and is 4.0.10.
C7_Witness ==
  /\ Parsed
  /\ ret.arg = <<"4", ".", "0", ".", "1", "0", "-", "D", ".">>
  /\ ret.value.release = <<4, 0, 10>>

\* A string parse has nothing to extract from: absent, empty, or neither a
\* valid version nor one that starts with MAJOR.MINOR.PATCH.
Malformed(s) == ~Truthy(s) \/ (~Version(s).ok /\ TriplePrefixes(s) = {})

\* C8: parse never raises, and for every malformed version string (the empty
\* string included) it returns the sentinel 0.0.0.
C8_MalformedIsZero ==
  Parsed => /\ ret.value.ok
            /\ Malformed(ret.arg) => ret.value = ZeroVersion

\* parse("4.10-D") was computed and is the sentinel.
C8_Witness ==
  /\ Parsed
  /\ ret.arg = <<"4", ".", "1", "0", "-", "D">>
  /\ ret.value = ZeroVersion

(***************************************************************************)
(* Properties of the CompatibilityChecker (SpecCompat)                     *)
(***************************************************************************)
\* The bound is given and parses.
WellFormed(b) == Truthy(b) /\ Version(b).ok

\* The bound is given and does not parse.
MalformedBound(b) == Truthy(b) /\ ~Version(b).ok

MinViolated(b) == WellFormed(b) /\ VersionLt(netbox_version, Version(b))
MaxViolated(b) == WellFormed(b) /\ VersionGt(netbox_version, Version(b))

\* The text contains the string b.
Mentions(text, b) ==
  \E i \in 1..Len(text) :
    i + Len(b) - 1 <= Len(text) /\ SubSeq(text, i, i + Len(b) - 1) = b

Checked == ret.op = "check_compatibility"

\* C3: check returns compatible=false exactly when a well-formed min is given
\* and current < min, or a well-formed max is given and current > max; the
\* reason then mentions the violated bound, the min one when both are
\* violated; otherwise compatible=true with no reason (so current equal to a
\* bound is compatible).
C3_CheckVerdict ==
  Checked =>
    /\ ret.value.compatible = ~(MinViolated(ret.min_version) \/ MaxViolated(ret.max_version))
    /\ MinViolated(ret.min_version) =>
         /\ ret.value.reason[1] = "Requires NetBox >= "
         /\ Mentions(ret.value.reason, ret.min_version)
    /\ (~MinViolated(ret.min_version) /\ MaxViolated(ret.max_version)) =>
         /\ ret.value.reason[1] = "Requires NetBox <= "
         /\ Mentions(ret.value.reason, ret.max_version)
    /\ ret.value.compatible => ret.value.reason = None
    /\ (/\ WellFormed(ret.min_version)
        /\ VersionEq(netbox_version, Version(ret.min_version))
        /\ ~Truthy(ret.max_version)) => ret.value.compatible

\* Host 4.2.0 was checked against min 4.5.0 and max 4.0.0, both violated.
C3_Witness ==
  /\ Checked
  /\ settings_VERSION = <<"4", ".", "2", ".", "0">>
  /\ ret.min_version = <<"4", ".", "5", ".", "0">>
  /\ ret.max_version = <<"4", ".", "0", ".", "0">>
  /\ ~ret.value.compatible

\* C4: check never raises, and a malformed bound is treated as absent: the
\* verdict is then the one the other bound alone gives.
C4_MalformedIgnored ==
  Checked =>
    /\ "compatible" \in DOMAIN ret.value
    /\ MalformedBound(ret.min_version) =>
         ret.value.compatible = ~MaxViolated(ret.max_version)
    /\ MalformedBound(ret.max_version) =>
         ret.value.compatible = ~MinViolated(ret.min_version)

\* A malformed max with a violated min: incompatible by the min alone.
C4_Witness ==
  /\ Checked
  /\ ret.max_version = <<"4", ".", "D">>
  /\ MinViolated(ret.min_version)
  /\ ~ret.value.compatible

Resolved == ret.op = "get_full_compatibility_info"

CuratedMin == DictGet(ret.curated_data, "netbox_min_version", None)
CuratedMax == DictGet(ret.curated_data, "netbox_max_version", None)
DeclaredMin == DictGet(get_plugin_constraints(ret.package_name), "min_version", None)
DeclaredMax == DictGet(get_plugin_constraints(ret.package_name), "max_version", None)

\* C1: whenever the curated entry supplies a min or a max bound, resolve
\* reports source=curated and the verdict of the curated bounds alone,
\* whatever the installed package declares.
C1_CuratedFirst ==
  (Resolved /\ (Truthy(CuratedMin) \/ Truthy(CuratedMax))) =>
    /\ ret.value.source = "curated"
    /\ ret.value.min_version = CuratedMin
    /\ ret.value.max_version = CuratedMax
    /\ ret.value.compatible = ~(MinViolated(CuratedMin) \/ MaxViolated(CuratedMax))

\* Curated min 4.0.0 admits host 4.2.0 although the installed package
\* declares a min the host violates.
C1_Witness ==
  /\ Resolved
  /\ settings_VERSION = <<"4", ".", "2", ".", "0">>
  /\ CuratedMin = <<"4", ".", "0", ".", "0">>
  /\ MinViolated(DeclaredMin)
  /\ ret.value.compatible
  /\ ret.value.source = "curated"

\* C5: when the curated entry supplies neither bound and the installed
\* package declares a min or a max, resolve reports the plugin-declared
\* source ("plugin_config") and the verdict of the declared bounds.
C5_DeclaredSecond ==
  (/\ Resolved
   /\ ~Truthy(CuratedMin) /\ ~Truthy(CuratedMax)
   /\ (Truthy(DeclaredMin) \/ Truthy(DeclaredMax))) =>
    /\ ret.value.source = "plugin_config"
    /\ ret.value.min_version = DeclaredMin
    /\ ret.value.max_version = DeclaredMax
    /\ ret.value.compatible = ~(MinViolated(DeclaredMin) \/ MaxViolated(DeclaredMax))

\* No curated bound, and the installed package declares a max the host violates.
C5_Witness ==
  /\ Resolved
  /\ ~Truthy(CuratedMin) /\ ~Truthy(CuratedMax)
  /\ MaxViolated(DeclaredMax)
  /\ ~ret.value.compatible
  /\ ret.value.source = "plugin_config"

\* C6: when neither the curated entry nor an installed copy supplies a bound
\* (the package may not be installed at all), resolve reports compatible=true
\* with source=unknown, whatever the host version.
C6_UnknownCompatible ==
  (/\ Resolved
   /\ ~Truthy(CuratedMin) /\ ~Truthy(CuratedMax)
   /\ ~Truthy(DeclaredMin) /\ ~Truthy(DeclaredMax)) =>
    /\ ret.value.compatible
    /\ ret.value.reason = None
    /\ ret.value.source = "unknown"

\* An installed package whose PluginConfig declares no bound, on host 3.9.0.
C6_Witness ==
  /\ Resolved
  /\ settings_VERSION = <<"3", ".", "9", ".", "0">>
  /\ get_plugin_constraints(ret.package_name) # EmptyDict
  /\ ~Truthy(CuratedMin) /\ ~Truthy(CuratedMax)
  /\ ~Truthy(DeclaredMin) /\ ~Truthy(DeclaredMax)
  /\ ret.value.source = "unknown"

(***************************************************************************)
(* Properties of the PyPIClient's cache (SpecClient)                       *)
(***************************************************************************)
ListedNow == ret.op = "get_all_netbox_packages"
InfoNow == ret.op = "get_package_info"

\* C9 as stated: after refresh(), the next registry call (list_packages, or
\* get_package_info for a package whose metadata was cached before the
\* refresh) sends a request to the registry.
C9_RefetchAfterRefresh ==
  ((ListedNow \/ InfoNow) /\ ret.after_refresh) => ret.fetched

Records ==
  IF ret.op = "get_all_plugins" THEN {ret.value[i] : i \in 1..Len(ret.value)}
  ELSE IF ret.op = "get_plugin" /\ ret.value # NonePlugin THEN {ret.value}
  ELSE {}

\* C2 as stated: in every record, upgrade_available is true exactly when the
\* package has both an installed version and a registry version and the two
\* differ as strings.
C2_UpgradeIffDiffer ==
  \A plugin \in Records :
    plugin.upgrade_available =
      (/\ Truthy(plugin.installed_version)
       /\ Truthy(plugin.version)
       /\ plugin.installed_version # plugin.version)

(***************************************************************************)
(* Properties of the PyPIClient's requests (SpecClient)                    *)
(***************************************************************************)
\* C12 as stated: once a call has fetched the index successfully, so that its
\* result is in the cache, every later get_all_netbox_packages before the
\* timeout and before a clear_cache returns that result without a request,
\* whatever the result was.
C12_ListServedFromCache ==
  [][(/\ ret'.op = "get_all_netbox_packages"
      /\ cache[KeyPackages].present
      /\ now < cache[KeyPackages].expires)
       => (/\ ~ret'.fetched
           /\ ret'.value = cache[KeyPackages].value)]_vars

\* The request of the last call ended in an error.
RequestFailed == (ListedNow \/ InfoNow) /\ ret.failed

\* C18 as stated: on any network or parse error while fetching or decoding the
\* index, get_all_netbox_packages returns the empty list and does not raise.
C18_ListFailsSoft ==
  (ListedNow /\ RequestFailed) => ret.value = <<>>

\* C19 as stated: on any fetch error (network failure, HTTP error status,
\* undecodable response) get_package_info returns None and does not raise.
C19_InfoFailsSoft ==
  (InfoNow /\ ret.fetched /\ (RequestFailed \/ ~InRegistry(ret.package_name)))
    => ret.value = NoneInfo

(***************************************************************************)
(* Properties of the inventory and of the curated catalog (SpecInventory)  *)
(***************************************************************************)
InventoryNow == ret.op = "_get_installed_packages"
CuratedNow == ret.op = "curated_data"

\* C11: refresh_cache drops the inventory's cache entry and both in-process
\* copies; the next _get_installed_packages after it runs pip again and the
\* next read of curated_data loads the catalog from its source again.
C11_RefreshDropsInventory ==
  /\ ret.op = "refresh_cache" => (cache[KeyInstalled] = NoEntry /\ svc = NewService)
  /\ (InventoryNow /\ ret.after_refresh) => (ret.ran /\ ret.source = "pip")
  /\ (CuratedNow /\ ret.after_refresh) => ret.reloaded

\* An inventory held before the refresh lacked netbox-a; the call after the
\* refresh ran pip and reports it.
C11_Witness ==
  /\ InventoryNow
  /\ ret.after_refresh
  /\ ret.ran
  /\ ret.value = InventoryWithA

\* C17: an inventory written to the cache at time t expires at t + 60
\* whatever pypi_cache_timeout is; a call that has no in-process copy is
\* served that entry, without running pip, while it has not expired, and
\* runs pip once it has.
C17_InventorySixtySeconds ==
  [][/\ cache'[KeyInstalled].present => cache'[KeyInstalled].expires <= now' + 60
     /\ (ret'.op = "_get_installed_packages" /\ ret'.source = "pip" /\ ret'.value # EmptyDict)
          => cache'[KeyInstalled] = [present |-> TRUE, value |-> ret'.value, expires |-> now + 60]
     /\ (ret'.op = "_get_installed_packages" /\ ~svc._installed_packages.loaded)
          => IF cache[KeyInstalled].present /\ now < cache[KeyInstalled].expires
               THEN ret'.source = "cache" /\ ret'.value = cache[KeyInstalled].value
               ELSE ret'.source = "pip"]_vars

\* With pypi_cache_timeout = 30, the inventory written at 0 is served from the
\* cache at 30, although netbox-a has been installed since.
C17_Witness ==
  /\ InventoryNow
  /\ ret.source = "cache"
  /\ cache_timeout = 30
  /\ now = 30
  /\ ret.value = InventoryBase
  /\ pip_env = InventoryWithA

\* C20 as stated: loading the curated catalog never raises and gives the
\* remote document when a URL is configured and its fetch succeeds, else the
\* local file when it exists and parses, else the empty catalog.
C20_FallbackOrder ==
  (CuratedNow /\ ret.reloaded) =>
    ret.value =
      IF Truthy(DictGet(plugins_config, "catalog_json_url", None)) /\ ret.remote_outcome = "ok"
        THEN catalog_env.remote
      ELSE IF catalog_env.local.exists /\ catalog_env.local.readable /\ catalog_env.local.valid
        THEN catalog_env.local.doc
      ELSE EmptyCatalog

(***************************************************************************)
(* Properties of get_all_plugins' curated filter (Spec)                    *)
(***************************************************************************)
AllNow == ret.op = "get_all_plugins"

\* The names of the records get_all_plugins returned.
RecordNames == {ret.value[i].name : i \in 1..Len(ret.value)}

\* The names listed by the registry, as get_all_plugins saw them.
ListedNames == {ret.package_names[i] : i \in 1..Len(ret.package_names)}

\* The curated plugins mapping the call worked with.
CuratedNames ==
  IF svc._curated_data.loaded THEN DOMAIN svc._curated_data.value.plugins ELSE {}

\* C16: get_all_plugins(include_uncurated=False) returns records only of
\* listed packages that have an entry in the curated plugins mapping, so a
\* listed package without one is left out; with include_uncurated=True every
\* listed package whose registry info is available is returned, curated or not.
C16_CuratedFilter ==
  AllNow =>
    IF ret.include_uncurated
      THEN RecordNames = ret.with_info
      ELSE RecordNames = ret.with_info \cap CuratedNames

\* Both cases at once are not one state; the witness is the filtered call
\* that left out a listed package with registry info and no curated entry.
C16_Witness ==
  /\ AllNow
  /\ ~ret.include_uncurated
  /\ RecordNames # {}
  /\ (ret.with_info \cap ListedNames) \ CuratedNames # {}

(***************************************************************************)
(* Properties of install requests (SpecInstall)                            *)
(***************************************************************************)
PostNow == ret.op = "PluginInstallView.post"

\* The request called installer.install.
InstallCalled == PostNow /\ ret.result # NoResult

\* C13 as stated: with allow_install false, no install request runs
\* "pip install".
C13_InstallDisabled ==
  (PostNow /\ ~DictGet(plugins_config, "allow_install", TRUE)) => ~InstallRan(ret.events)

\* The positions of the steps of one kind among events.
StepsOf(events, kind) == {i \in 1..Len(events) : events[i].kind = kind}

\* C14: a request that runs pip creates one InstallationLog row, before the
\* first subprocess, and saves it once, after the last; the saved status is
\* success exactly when the InstallResult reports success, failed otherwise;
\* the rows that were there stay as they were.
C14_LogAroundInstall ==
  [][(ret'.op = "PluginInstallView.post" /\ StepsOf(ret'.events, "subprocess.run") # {})
       => /\ StepsOf(ret'.events, "InstallationLog.objects.create") = {1}
          /\ StepsOf(ret'.events, "log.save") = {Len(ret'.events)}
          /\ Len(InstallationLog_objects') = Len(InstallationLog_objects) + 1
          /\ SubSeq(InstallationLog_objects', 1, Len(InstallationLog_objects))
               = InstallationLog_objects
          /\ ret'.log_id = Len(InstallationLog_objects')
          /\ InstallationLog_objects'[ret'.log_id].saves = 1
          /\ InstallationLog_objects'[ret'.log_id].status
               = IF ret'.result.success THEN "success" ELSE "failed"]_vars

\* A request whose install exited nonzero: its row is there, saved as failed.
C14_Witness ==
  /\ InstallCalled
  /\ InstallRan(ret.events)
  /\ ~ret.result.success
  /\ InstallationLog_objects[ret.log_id].status = "failed"
  /\ InstallationLog_objects[ret.log_id].error = <<"e">>

\* The subprocesses a request ran, in order.
RunsOf(events) ==
  [i \in 1..Cardinality(StepsOf(events, "subprocess.run")) |-> events[i + 1].run]

\* pip is available on host: one of the candidates works.
Available(host) == \E i \in 1..Len(host.candidates) : host.candidates[i] \in host.working

\* C15: install returns an InstallResult in every case and runs the install
\* subprocess at most once, never without pip being available; the result is
\* a failure with the matching error text when pip is unavailable, when the
\* subprocess times out, exits nonzero (error = its stderr) or raises, and a
\* success only when the subprocess exited with code 0.
C15_InstallFailsSoft ==
  InstallCalled =>
    /\ ret.result.success \in BOOLEAN
    /\ ret.result.package_name = ret.name
    /\ Cardinality(InstallRuns(RunsOf(ret.events))) = (IF Available(ret.host) THEN 1 ELSE 0)
    /\ ~Available(ret.host)
         => ret.result = InstallResult(FALSE, ret.name, <<>>, <<>>,
                                       UnavailableError(ret.host.docker))
    /\ (Available(ret.host) /\ ret.outcome.kind = "TimeoutExpired")
         => ret.result = InstallResult(FALSE, ret.name, <<>>, <<>>,
                                       TimedOutError(DefaultInstallTimeout))
    /\ (Available(ret.host) /\ ret.outcome.kind = "Exception")
         => ret.result = InstallResult(FALSE, ret.name, <<>>, <<>>, ret.outcome.message)
    /\ (Available(ret.host) /\ ret.outcome.kind = "exit" /\ ret.outcome.returncode # 0)
         => ret.result = InstallResult(FALSE, ret.name, <<>>, ret.outcome.stdout,
                                       ret.outcome.stderr)
    /\ ret.result.success
         <=> (Available(ret.host) /\ ret.outcome.kind = "exit" /\ ret.outcome.returncode = 0)

\* The install subprocess timed out on a host whose first pip candidate does
\* not work: one install run, a failure with the timeout's text.
C15_Witness ==
  /\ InstallCalled
  /\ ret.host.candidates[1] \notin ret.host.working
  /\ ret.outcome.kind = "TimeoutExpired"
  /\ Cardinality(InstallRuns(RunsOf(ret.events))) = 1
  /\ ~ret.result.success
  /\ ret.result.error = TimedOutError(DefaultInstallTimeout)

(***************************************************************************)
(* Properties of _merge_plugin_info (SpecMerge)                            *)
(***************************************************************************)
MergedNow == ret.op = "_merge_plugin_info"

\* What a record carries in a curated field its entry lacks.
CuratedDefault(f) ==
  CASE f = "category" -> <<"Other">>
    [] f = "certification" -> <<"untested">>
    [] f = "recommended" -> TRUE
    [] f = "featured" -> FALSE
    [] f = "tags" -> <<>>
    [] OTHER -> <<>>

\* C21: the merged record has, in every curated field, the entry's value when
\* the entry has the field and the default otherwise: category "Other",
\* certification "untested", recommended true, featured false (and empty for
\* the others); hence all defaults for an empty entry.
C21_MergeDefaults ==
  MergedNow =>
    /\ \A f \in CuratedFields :
         ret.value[f] = IF f \in DOMAIN ret.curated_info
                          THEN ret.curated_info[f] ELSE CuratedDefault(f)
    /\ ret.curated_info = EmptyDict
         => /\ ret.value.category = <<"Other">>
            /\ ret.value.certification = <<"untested">>
            /\ ret.value.recommended
            /\ ~ret.value.featured

\* An entry that says recommended: false and nothing about the category.
C21_Witness ==
  /\ MergedNow
  /\ DOMAIN ret.curated_info = {"recommended", "notes"}
  /\ ~ret.value.recommended
  /\ ret.value.category = <<"Other">>

(***************************************************************************)
(* Properties of get_all_plugins under failing requests (SpecList)         *)
(***************************************************************************)
\* C22 as stated: get_all_plugins never raises, and returns a record for
\* every listed package that qualifies and whose registry info is available,
\* however the requests for the other packages end.
C22_UnavailableSkipped ==
  AllNow =>
    /\ ~ret.raised
    /\ RecordNames =
         IF ret.include_uncurated THEN ret.with_info ELSE ret.with_info \cap CuratedNames

(***************************************************************************)
(* Properties of get_plugin (Spec)                                         *)
(***************************************************************************)
OneNow == ret.op = "get_plugin"

\* C23: get_plugin(name) returns None when the registry has no entry for the
\* name (and none is cached); it returns a record, of that name, when the
\* registry info is there (cached, or the registry has the entry and the
\* request succeeds), with or without a curated entry.
C23_NoneIffNoInfo ==
  [][ret'.op = "get_plugin" =>
       /\ (~InRegistry(ret'.name) /\ ~CacheHit(cache, KeyPackage(ret'.name)))
            => ret'.value = NonePlugin
       /\ ((InRegistry(ret'.name) /\ ~ret'.failed) \/ CacheHit(cache, KeyPackage(ret'.name)))
            => (ret'.value # NonePlugin /\ ret'.value.name = ret'.name)
       /\ ret'.failed => ret'.value = NonePlugin]_vars

\* A record for a name the curated catalog, which was loaded, has no entry for.
C23_Witness ==
  /\ OneNow
  /\ ret.value # NonePlugin
  /\ ret.value.name = PkgB
  /\ svc._curated_data.loaded
  /\ PkgB \notin CuratedNames
  /\ CuratedNames # {}

(***************************************************************************)
(* Properties of racing requests (SpecRace)                                *)
(***************************************************************************)
\* The requests that fetched and wrote the entry of op's key.
Writers(op) ==
  {r \in Requests : in_flight[r].pc = "done" /\ in_flight[r].op = op /\ in_flight[r].stored > 0}

\* The one of them that wrote last.
LastWriter(op) == CHOOSE r \in Writers(op) : \A q \in Writers(op) : in_flight[q].stored <= in_flight[r].stored

\* C24: of two requests that both found the entry expired and both fetched,
\* each returns what its own request fetched, and the cache then holds what
\* the one that wrote last fetched; a request whose fetch failed returns the
\* fallback and writes nothing.
C24_LastWriteWins ==
  /\ \A r \in Requests :
       (in_flight[r].pc = "done" /\ in_flight[r].stored > 0)
         => in_flight[r].value = in_flight[r].got
  /\ \A r \in Requests :
       (in_flight[r].pc = "done" /\ in_flight[r].fetched /\ in_flight[r].stored = 0)
         => in_flight[r].value = RaceFallback(in_flight[r].op)
  /\ \A op \in RaceOps :
       Writers(op) # {}
         => /\ cache[RaceKey(op)].present
            /\ cache[RaceKey(op)].value = in_flight[LastWriter(op)].got

\* Two requests for the list both fetched; the index changed between their
\* requests; the cache holds the list of the second to write, which is not
\* the list the first returned.
C24_Witness ==
  /\ Writers("get_all_netbox_packages") = Requests
  /\ in_flight[1].value # in_flight[2].value
  /\ in_flight[1].stored = 2
  /\ in_flight[1].value = <<PkgA>>
  /\ cache[KeyPackages].value = <<PkgA>>

(***************************************************************************)
(* Properties of concurrent install requests (SpecConcurrent)              *)
(***************************************************************************)
Installing(r) == in_flight[r].pc = "installing"

\* C25: install requests are not serialised: every request that is inside
\* installer.install has a row of its own, of its package, in status in_progress,
\* whatever the other request is doing (C25_Witness: both inside at once).
C25_NoMutualExclusion ==
  /\ \A r \in Requests :
       Installing(r)
         => /\ in_flight[r].log_id \in 1..Len(InstallationLog_objects)
            /\ InstallationLog_objects[in_flight[r].log_id].status = "in_progress"
            /\ InstallationLog_objects[in_flight[r].log_id].package_name = in_flight[r].name
  /\ \A r, q \in Requests :
       (r # q /\ Installing(r) /\ Installing(q)) => in_flight[r].log_id # in_flight[q].log_id

\* Both requests are installing netbox-a on a host where pip works.
C25_Witness ==
  /\ \A r \in Requests :
       /\ Installing(r)
       /\ in_flight[r].name = PkgA
       /\ Available(in_flight[r].host)
  /\ InstallationLog_objects[1].status = "in_progress"
  /\ InstallationLog_objects[2].status = "in_progress"

Terminal == {"success", "failed"}

Done(r) == in_flight[r].pc = "done" /\ in_flight[r].log_id # 0

\* The rows of the requests that are inside installer.install.
RowsInstalling == {in_flight[r].log_id : r \in {q \in Requests : Installing(q)}}

\* A request that created a row has left it in success or failed when it
\* returns (success exactly when the installer reported success), and only
\* the rows of requests still installing are in_progress.
RowsEndTerminal ==
  /\ \A r \in Requests :
       Done(r)
         => /\ InstallationLog_objects[in_flight[r].log_id].status \in Terminal
            /\ InstallationLog_objects[in_flight[r].log_id].status = "success"
                 <=> in_flight[r].result.success
  /\ \A i \in 1..Len(InstallationLog_objects) :
       InstallationLog_objects[i].status = "in_progress" <=> i \in RowsInstalling

\* A row in success or failed is left as it is by every step.
TerminalRowsKept ==
  \A i \in 1..Len(InstallationLog_objects) :
    InstallationLog_objects[i].status \in Terminal
      => /\ i \in 1..Len(InstallationLog_objects')
         /\ InstallationLog_objects'[i] = InstallationLog_objects[i]

\* C27: every row an install request created is in success or failed when the
\* request returns, however the installer ended; a row in success or failed
\* is never changed again, and no row stays in_progress.
C27_RowsReachTerminal == []RowsEndTerminal /\ [][TerminalRowsKept]_vars

\* Both requests have returned: one met an unexpected exception of the
\* subprocess, the other a host without pip; both rows are failed.
C27_Witness ==
  /\ \A r \in Requests : Done(r)
  /\ in_flight[1].log_id # in_flight[2].log_id
  /\ in_flight[1].outcome.kind = "Exception"
  /\ Available(in_flight[1].host)
  /\ ~Available(in_flight[2].host)
  /\ InstallationLog_objects[in_flight[1].log_id].status = "failed"
  /\ InstallationLog_objects[in_flight[2].log_id].status = "failed"

(***************************************************************************)
(* What a refused install request leaves (SpecInstall)                     *)
(***************************************************************************)
\* The registry has the project, so get_plugin returns a record for it.
Known(name) == name \in DOMAIN pypi.packages

\* The request that has just returned was for an unknown name or had no
\* confirmation.
Refusable == PostNow' /\ (~Known(ret'.name) \/ ~ret'.confirm)

\* C26: a request for a name the registry does not know, or whose form is
\* not valid, creates no row and runs no subprocess; install is called only
\* with a record from get_plugin and a confirmed form.
C26_InstallOnlyWhenAccepted ==
  [][/\ Refusable
          => /\ InstallationLog_objects' = InstallationLog_objects
             /\ pip_env' = pip_env
             /\ ret'.events = <<>>
             /\ ret'.result = NoResult
     /\ (PostNow' /\ ret'.result # NoResult)
          => /\ Known(ret'.name)
             /\ ret'.confirm
             /\ Len(InstallationLog_objects') = Len(InstallationLog_objects) + 1]_vars

\* A request for a known package whose form was not confirmed has returned the
\* form again, having run nothing and left the table empty.
C26_Witness ==
  /\ PostNow
  /\ Known(ret.name)
  /\ ~ret.confirm
  /\ ret.response = "render form"
  /\ ret.events = <<>>
  /\ InstallationLog_objects = <<>>

(***************************************************************************)
(* Failed fetches and the shared cache (SpecFetch)                         *)
(***************************************************************************)
FetchOps == {"get_all_netbox_packages", "get_package_info", "_get_installed_packages"}

\* The cache key the call recorded in r read.
KeyOf(r) ==
  IF r.op = "get_all_netbox_packages" THEN KeyPackages
  ELSE IF r.op = "get_package_info" THEN KeyPackage(r.package_name)
  ELSE KeyInstalled

\* The step is a call whose request, or pip list, failed.
FetchFailed == ret'.op \in FetchOps /\ ret'.failed

\* The step repeats, through the client, the call that has just failed.
Repeated ==
  /\ ret.op \in FetchOps \ {"_get_installed_packages"}
  /\ ret.failed
  /\ ret'.op = ret.op
  /\ KeyOf(ret') = KeyOf(ret)

\* C28: a call whose fetch failed leaves the shared cache as it was, with no
\* entry that cache.get finds under its key, and the same call made next
\* sends its request again.
C28_FailedFetchNotCached ==
  [][/\ FetchFailed
          => /\ cache' = cache
             /\ ~(cache'[KeyOf(ret')].present /\ now' < cache'[KeyOf(ret')].expires)
     /\ Repeated => ret'.fetched]_vars

\* pip list has failed while the list of packages is in the cache: the cache
\* has the list's entry and none for the inventory.
C28_Witness ==
  /\ ret.op = "_get_installed_packages"
  /\ ret.failed
  /\ ret.value = EmptyDict
  /\ CacheHit(cache, KeyPackages)
  /\ ~cache[KeyInstalled].present

(***************************************************************************)
(* When get_full_compatibility_info imports the package (SpecCompat)       *)
(***************************************************************************)
\* C29: get_full_compatibility_info calls get_plugin_constraints, which
\* imports the package's module, exactly when the curated entry supplies
\* neither a min nor a max bound; with a curated bound nothing is imported.
C29_ImportOnlyWithoutCurated ==
  Resolved => (ret.imported <=> ~(Truthy(CuratedMin) \/ Truthy(CuratedMax)))

\* The curated entry has an empty min and a max; the installed module could
\* be imported and declares a min, and was not imported.
C29_Witness ==
  /\ Resolved
  /\ CuratedMin = <<>>
  /\ Truthy(CuratedMax)
  /\ Importable(Replace(ret.package_name, "-", "_"))
  /\ Truthy(DeclaredMin)
  /\ ~ret.imported

(***************************************************************************)
(* get_plugin against get_all_plugins (Spec)                               *)
(***************************************************************************)
\* The names of the records in plugins.
NamesIn(plugins) == {plugins[i].name : i \in 1..Len(plugins)}

\* all is what get_all_plugins(include_uncurated=True) returns and one what
\* get_plugin(n) returns, from the same state and with the same answers of
\* the registry and of pip: one is among all's records when it is a record,
\* and all has no record for n otherwise.
Agree(n, all, one) ==
  IF one.value = NonePlugin
    THEN n \notin NamesIn(all.value)
    ELSE \E i \in 1..Len(all.value) :
           /\ all.value[i] = one.value
           /\ \A j \in 1..Len(all.value) : all.value[j].name = n => j = i

\* listed is what get_all_netbox_packages returns in that state.
AgreeOnListed(listed, os, po, ro, all) ==
  \A i \in 1..Len(listed) :
    Agree(listed[i], all, get_plugin(cache, svc, listed[i], os[listed[i]], po, ro))

\* C30: in every state, for every way the requests for the packages' JSON
\* and pip list can end, get_plugin(n) returns, for each name n the list of
\* packages has, the record get_all_plugins(include_uncurated=True) has for
\* n, field by field, and None exactly when get_all_plugins has no record
\* for n. (When the request for the list fails there is no name to compare.)
C30_OneAgreesWithAll ==
  \A os \in [{PkgA, PkgB} -> Outcomes], po \in PipOutcomes, ro \in RemoteOutcomes :
    AgreeOnListed(get_all_netbox_packages(cache, "ok").value, os, po, ro,
                  get_all_plugins(cache, svc, TRUE, "ok", os, po, ro))

\* get_all_plugins(include_uncurated=True) has returned two records, one of
\* an installed and activated package with a curated entry, and get_plugin
\* returns the same record for it.
C30_Witness ==
  /\ AllNow
  /\ ret.include_uncurated
  /\ Len(ret.value) = 2
  /\ \E i \in 1..Len(ret.value) :
       /\ ret.value[i].name \in CuratedNames
       /\ Truthy(ret.value[i].installed_version)
       /\ ret.value[i].is_activated
       /\ ret.value[i] = get_plugin(cache, svc, ret.value[i].name, "ok", "ok", "ok").value

====
